---- MODULE Spec2Model ----
(***************************************************************************)
(* Model of the LatinGrammarTranslator core: the document tree, the       *)
(* segment extraction / reinjection protocol and the retrying translation  *)
(* orchestrator (translation_strategy.py), the structural parser           *)
(* (html_parser.py), the markup serializer (html_generator.py) and the     *)
(* Word serializer (word_generator.py).                                    *)
(*                                                                         *)
(* Conventions:                                                            *)
(*  - Python None is the value Null.                                       *)
(*  - a segment id f"seg_{n}" is modelled by the natural number n (the     *)
(*    formatting is injective); a translations key is a natural number.    *)
(*  - every TextSegment carries a field "ref": the identity of the Python  *)
(*    object, which no operation of the program can change.                *)
(*  - to the translator a text is an opaque value; the source text of the  *)
(*    segment with identity r is <<"src", r>> and the text the             *)
(*    collaborator returns for key k is <<"tr", k>>.                       *)
(*  - to the parser and the generator a text is a sequence of characters.  *)
(*  - a section_number is a sequence of characters, None the empty one     *)
(*    (the pattern of _extract_section_number never matches an empty one). *)
(***************************************************************************)
EXTENDS Integers, Sequences, FiniteSets, TLC

VARIABLES
    parsed_doc,     \* the ParsedDocument handed to translate_document
    stats,          \* TranslationStrategy.stats (the four running totals)
    max_retries,    \* SectionTranslator.max_retries
    pc,             \* position inside translate_document
    section,        \* SectionData returned by _extract_section_data
    attempt,        \* loop variable of _translate_with_retry
    result,         \* TranslationResult returned by _translate_with_retry
    calls,          \* history: payload and success of each translate_section call
    writes,         \* history: <<key, ref>> of each assignment of _apply_translations
    pre_doc,        \* history: the document when the current call started
    pre_stats,      \* history: the totals when the current call started
    completed,      \* history: number of translate_document calls returned
    html,           \* the markup document handed to parse_html
    parser_stats,   \* LatinGrammarParser.stats
    output,         \* the markup document written by generate_html
    indent_level,   \* HtmlGenerator.indent_level
    ppc,            \* position in the parse / generate pipeline
    round,          \* history: number of parse_html calls made
    prev_output,    \* history: the markup document written before output
    docx,           \* the blocks added to SimpleWordGenerator.doc
    requests,       \* the parse_html calls in flight on the module-level parser
    app             \* the settings of app.py and the last /translate exchange

\* app.py: TRANSLATOR_PROVIDER, TRANSLATOR_API_KEY and TRANSLATOR_MODEL as read
\* from the environment, the body of the last /translate request, the
\* translator the handler created for it and the answer it gave
App(provider, api_key, model, data, translator, response) ==
    [TRANSLATOR_PROVIDER |-> provider, TRANSLATOR_API_KEY |-> api_key,
     TRANSLATOR_MODEL |-> model, data |-> data, translator |-> translator,
     response |-> response]

\* os.getenv("TRANSLATOR_PROVIDER", "gemini"), os.getenv("TRANSLATOR_API_KEY", ""),
\* os.getenv("TRANSLATOR_MODEL") without the variables set; no request yet
DefaultApp ==
    App("gemini", "", "None", [kind |-> "none"], [class |-> "None"], [status |-> 0])

\* the state of the translator, apart from the document
tvars == <<stats, max_retries, pc, section, attempt, result, calls, writes, pre_doc,
           pre_stats, completed>>

\* the state of the parser and of the generator
pvars == <<html, parser_stats, output, indent_level, ppc, round, prev_output, docx,
          requests, app>>

vars == <<parsed_doc, tvars, pvars>>

Null == "None"

\* the truth value of an optional str
Truthy(str) == str \notin {Null, ""}

\* ---------------------------------------------------------------- bounds
MaxSize == 5           \* nodes plus text segments of a generated document tree
MaxRetries == 2        \* largest max_retries tried
MaxTokens == 2         \* largest tokens_used reported by the collaborator
MaxCalls == 2          \* translate_document calls of one session
SessionSize == 2       \* nodes plus text segments of a document of a session
MaxDom == 4            \* tags plus text runs of the body of an input markup document
MaxRounds == 2         \* parse_html calls of one pipeline
MaxJoinSegs == 2       \* segments of the paragraph handed to the serializer
MaxInline == 2         \* text runs and inline tags of the block of an inline input
MaxAttrs == 3          \* attributes of the block of an attribute input
MaxShared == 2         \* tags plus text runs of the body of a document of a concurrent request
MaxBody == 1           \* tags plus text runs of the body of a document sent to /translate
MaxWord == 2           \* distinct texts of the documents written to Word
MaxExtractRuns == 3    \* text runs and spans of a block of such a document

\* ------------------------------------------------------------ data model
ENGLISH == "english"
LATIN == "latin"
GLOSS == "gloss"
REFERENCE == "reference"
MIXED == "mixed"

TextType == {ENGLISH, LATIN, GLOSS, REFERENCE, MIXED}

FormattingStyle ==
    [bold |-> FALSE, italic |-> FALSE, underline |-> FALSE, font_size |-> Null,
     font_family |-> Null, color |-> Null, padding_left |-> Null, text_align |-> Null]

TextSegment(r, txt, tt, fmt, cls) ==
    [ref |-> r, text |-> txt, text_type |-> tt, formatting |-> fmt, html_class |-> cls]

ParsedNode(nt, nid, segs, attrs, style, kids, secno, isfn, fnid) ==
    [node_type |-> nt, node_id |-> nid, text_segments |-> segs, attributes |-> attrs,
     inline_style |-> style, children |-> kids, section_number |-> secno,
     is_footnote |-> isfn, footnote_id |-> fnid]

EmptyStats ==
    [sections_translated |-> 0, segments_translated |-> 0, total_tokens |-> 0, errors |-> 0]

\* ------------------------------------------------------ sequence helpers
RECURSIVE SumSeq(_)
SumSeq(s) == IF s = <<>> THEN 0 ELSE Head(s) + SumSeq(Tail(s))

RECURSIVE Flatten(_)
Flatten(ss) == IF ss = <<>> THEN <<>> ELSE Head(ss) \o Flatten(Tail(ss))

Range(s) == {s[i] : i \in DOMAIN s}

Idx(n) == [k \in 1..n |-> k]

\* ------------------------------------------------- document trees (input)
\* A tree of n nodes is given by a parent vector (0 = top level), the nodes
\* numbered in document order, and a layout of typed segments over the nodes;
\* every ParsedNode/TextSegment value that pydantic accepts can reach
\* translate_document through app.py:111.
RECURSIVE AncestorsOrSelf(_, _)
AncestorsOrSelf(p, j) == IF j = 0 THEN {0} ELSE {j} \cup AncestorsOrSelf(p, p[j])

Parents(n) ==
    {p \in [1..n -> 0..(n - 1)] :
        \A i \in 1..n : p[i] < i /\ (i > 1 => p[i] \in AncestorsOrSelf(p, i - 1))}

GenTypes == {ENGLISH, LATIN, GLOSS, REFERENCE}

Layouts(n, maxsegs) ==
    IF n = 0 THEN {<<>>}
    ELSE UNION {{l \in [1..k -> [owner : 1..n, tt : GenTypes]] :
                    \A i \in 1..(k - 1) : l[i].owner <= l[i + 1].owner} : k \in 0..maxsegs}

ClassOf(tt) ==
    CASE tt = LATIN -> "foreign" [] tt = GLOSS -> "gloss" [] tt = REFERENCE -> "bibl"
      [] OTHER -> Null

HasKids(i, n, parent) == \E j \in 1..n : parent[j] = i

KindOf(i, n, parent, parentKind) ==
    CASE parentKind = "table" -> "tr"
      [] parentKind = "tr" -> "td"
      [] parentKind = "ul" -> "li"
      [] parentKind = Null /\ HasKids(i, n, parent) ->
            IF \E j \in 1..n : parent[j] = i /\ HasKids(j, n, parent) THEN "table" ELSE "ul"
      [] OTHER -> IF HasKids(i, n, parent) THEN "div" ELSE "p"

RECURSIVE BuildNode(_, _, _, _, _)
BuildNode(i, n, parent, lay, parentKind) ==
    LET kind == KindOf(i, n, parent, parentKind)
        mine == SelectSeq(Idx(Len(lay)), LAMBDA k : lay[k].owner = i)
        kids == SelectSeq(Idx(n), LAMBDA j : parent[j] = i)
    IN  ParsedNode(kind, ToString(i),
                   [x \in DOMAIN mine |->
                       TextSegment(mine[x], <<"src", mine[x]>>, lay[mine[x]].tt,
                                   FormattingStyle, ClassOf(lay[mine[x]].tt))],
                   <<[key |-> "id", value |-> ToString(i)]>>, Null,
                   [x \in DOMAIN kids |-> BuildNode(kids[x], n, parent, lay, kind)],
                   <<>>, FALSE, Null)

DefaultDocStats ==
    [total_nodes |-> 0, text_segments |-> 0, latin_segments |-> 0, english_segments |-> 0,
     gloss_segments |-> 0, tables |-> 0, lists |-> 0]

BuildDocument(n, parent, lay) ==
    LET tops == SelectSeq(Idx(n), LAMBDA j : parent[j] = 0)
    IN  [title |-> "Title", encoding |-> "utf-8",
         nodes |-> [x \in DOMAIN tops |-> BuildNode(tops[x], n, parent, lay, Null)],
         sections |-> [id \in {ToString(tops[x]) : x \in DOMAIN tops} |->
                          CHOOSE x \in DOMAIN tops : ToString(tops[x]) = id],
         footnotes |-> <<>>,
         stats |-> DefaultDocStats,
         original_filename |-> IF n = 0 THEN Null ELSE "a.htm",
         css_file |-> Null]

DocumentsOf(maxsize) ==
    UNION {{BuildDocument(n, p, l) : p \in Parents(n), l \in Layouts(n, maxsize - n)} :
              n \in 0..maxsize}

Documents == DocumentsOf(MaxSize)

SessionDocuments == DocumentsOf(SessionSize)

\* ------------------------------------------------- walks used by the claims
RECURSIVE NodeSegments(_)
RECURSIVE ForestSegments(_)
\* every segment of a subtree, a node's own segments before its children's
NodeSegments(node) == node.text_segments \o ForestSegments(node.children)
ForestSegments(nodes) ==
    IF nodes = <<>> THEN <<>> ELSE NodeSegments(Head(nodes)) \o ForestSegments(Tail(nodes))

AllSegments(doc) == ForestSegments(doc.nodes)

\* the segment with identity r
SegmentByRef(doc, r) ==
    LET all == AllSegments(doc) IN all[CHOOSE i \in DOMAIN all : all[i].ref = r]

Refs(doc) == {s.ref : s \in Range(AllSegments(doc))}

\* --------------------------------------------- _extract_section_data
\* variant: the LATIN branch appends a unit like the other two
ExtractSegment_LatinToo(acc, segment) ==
    IF segment.text_type \in {LATIN, ENGLISH, GLOSS}
    THEN [acc EXCEPT !.segments_to_translate =
                         Append(@, [id |-> acc.segment_id, text |-> segment.text,
                                    type |-> segment.text_type, segment_ref |-> segment.ref]),
                     !.segment_id = @ + 1]
    ELSE acc

\* variant: a LATIN segment uses up an id
ExtractSegment_LatinTakesId(acc, segment) ==
    IF segment.text_type = LATIN
    THEN [acc EXCEPT !.latin_count = @ + 1, !.segment_id = @ + 1]
    ELSE IF segment.text_type \in {ENGLISH, GLOSS}
    THEN [acc EXCEPT !.segments_to_translate =
                         Append(@, [id |-> acc.segment_id, text |-> segment.text,
                                    type |-> segment.text_type, segment_ref |-> segment.ref]),
                     !.segment_id = @ + 1]
    ELSE acc

\* variant: a GLOSS segment is counted with the ENGLISH ones
ExtractSegment_GlossAsEnglish(acc, segment) ==
    IF segment.text_type = LATIN
    THEN [acc EXCEPT !.latin_count = @ + 1]
    ELSE IF segment.text_type \in {ENGLISH, GLOSS}
    THEN [acc EXCEPT !.english_count = @ + 1,
                     !.segments_to_translate =
                         Append(@, [id |-> acc.segment_id, text |-> segment.text,
                                    type |-> "english", segment_ref |-> segment.ref]),
                     !.segment_id = @ + 1]
    ELSE acc

ExtractSegment(acc, segment) ==
    IF segment.text_type = LATIN
    THEN [acc EXCEPT !.latin_count = @ + 1]
    ELSE IF segment.text_type = ENGLISH
    THEN [acc EXCEPT !.english_count = @ + 1,
                     !.segments_to_translate =
                         Append(@, [id |-> acc.segment_id, text |-> segment.text,
                                    type |-> "english", segment_ref |-> segment.ref]),
                     !.segment_id = @ + 1]
    ELSE IF segment.text_type = GLOSS
    THEN [acc EXCEPT !.gloss_count = @ + 1,
                     !.segments_to_translate =
                         Append(@, [id |-> acc.segment_id, text |-> segment.text,
                                    type |-> "gloss", segment_ref |-> segment.ref]),
                     !.segment_id = @ + 1]
    ELSE acc

RECURSIVE ExtractSegments(_, _)
ExtractSegments(segs, acc) ==
    IF segs = <<>> THEN acc ELSE ExtractSegments(Tail(segs), ExtractSegment(acc, Head(segs)))

RECURSIVE extract_recursive(_, _)
RECURSIVE ExtractNodes(_, _)
extract_recursive(node, acc) ==
    ExtractNodes(node.children, ExtractSegments(node.text_segments, acc))
ExtractNodes(nodes, acc) ==
    IF nodes = <<>> THEN acc ELSE ExtractNodes(Tail(nodes), extract_recursive(Head(nodes), acc))

_extract_section_data(doc) ==
    LET acc == ExtractNodes(doc.nodes,
                   [segments_to_translate |-> <<>>, segment_id |-> 0, latin_count |-> 0,
                    english_count |-> 0, gloss_count |-> 0])
    IN  [title |-> doc.title,
         filename |-> IF doc.original_filename = Null THEN "unknown" ELSE doc.original_filename,
         segments_to_translate |-> acc.segments_to_translate,
         total_segments |-> acc.segment_id + acc.latin_count,
         latin_count |-> acc.latin_count,
         english_count |-> acc.english_count,
         gloss_count |-> acc.gloss_count]

\* what _create_section_prompt reads of a SectionData: title, filename and
\* the ordered list of {id, text, type}
Payload(sec) ==
    [title |-> sec.title, filename |-> sec.filename,
     segments |-> [i \in DOMAIN sec.segments_to_translate |->
                      [id |-> sec.segments_to_translate[i].id,
                       text |-> sec.segments_to_translate[i].text,
                       type |-> sec.segments_to_translate[i].type]]]

\* ------------------------------------------------- _apply_translations
\* The state threaded through the walk: st.counter is segment_id_counter and
\* st.writes lists the assignments made, as <<key, ref of the segment set>>.
\* variant: the position counter advances on segments of every type
ApplySegment_CountsAll(segment, st, translations) ==
    IF segment.text_type \in {ENGLISH, GLOSS} /\ st.counter \in DOMAIN translations
    THEN [seg |-> [segment EXCEPT !.text = translations[st.counter]],
          st |-> [counter |-> st.counter + 1,
                  writes |-> Append(st.writes, <<st.counter, segment.ref>>)]]
    ELSE [seg |-> segment, st |-> [st EXCEPT !.counter = @ + 1]]

\* variant: a translated segment is replaced by a fresh TextSegment
ApplySegment_Rebuilds(segment, st, translations) ==
    IF segment.text_type \in {ENGLISH, GLOSS}
    THEN IF st.counter \in DOMAIN translations
         THEN [seg |-> TextSegment(segment.ref, translations[st.counter], ENGLISH,
                                   FormattingStyle, Null),
               st |-> [counter |-> st.counter + 1,
                       writes |-> Append(st.writes, <<st.counter, segment.ref>>)]]
         ELSE [seg |-> segment, st |-> [st EXCEPT !.counter = @ + 1]]
    ELSE [seg |-> segment, st |-> st]

ApplySegment(segment, st, translations) ==
    IF segment.text_type \in {ENGLISH, GLOSS}
    THEN IF st.counter \in DOMAIN translations
         THEN [seg |-> [segment EXCEPT !.text = translations[st.counter]],
               st |-> [counter |-> st.counter + 1,
                       writes |-> Append(st.writes, <<st.counter, segment.ref>>)]]
         ELSE [seg |-> segment, st |-> [st EXCEPT !.counter = @ + 1]]
    ELSE [seg |-> segment, st |-> st]

RECURSIVE ApplySegments(_, _, _)
\* the loop "for segment in <node>.text_segments" (lines 322-327 and 332-337)
ApplySegments(segs, st, translations) ==
    IF segs = <<>> THEN [segs |-> <<>>, st |-> st]
    ELSE LET h == ApplySegment(Head(segs), st, translations)
             t == ApplySegments(Tail(segs), h.st, translations)
         IN  [segs |-> <<h.seg>> \o t.segs, st |-> t.st]

RECURSIVE apply_recursive(_, _, _)
RECURSIVE ApplyChildren(_, _, _)
RECURSIVE ApplyChildren_PostOrder(_, _, _)
\* apply_recursive(node): for each child, the child's segments, then recurse
apply_recursive(node, st, translations) ==
    LET r == ApplyChildren(node.children, st, translations)
    IN  [node |-> [node EXCEPT !.children = r.nodes], st |-> r.st]

\* variant: the recursion into a child precedes the child's own segments
ApplyChildren_PostOrder(kids, st, translations) ==
    IF kids = <<>> THEN [nodes |-> <<>>, st |-> st]
    ELSE LET sub == apply_recursive(Head(kids), st, translations)
             own == ApplySegments(sub.node.text_segments, sub.st, translations)
             rest == ApplyChildren_PostOrder(Tail(kids), own.st, translations)
         IN  [nodes |-> <<[sub.node EXCEPT !.text_segments = own.segs]>> \o rest.nodes,
              st |-> rest.st]

ApplyChildren(kids, st, translations) ==
    IF kids = <<>> THEN [nodes |-> <<>>, st |-> st]
    ELSE LET own == ApplySegments(Head(kids).text_segments, st, translations)
             sub == apply_recursive([Head(kids) EXCEPT !.text_segments = own.segs],
                                    own.st, translations)
             rest == ApplyChildren(Tail(kids), sub.st, translations)
         IN  [nodes |-> <<sub.node>> \o rest.nodes, st |-> rest.st]

RECURSIVE ApplyTopLevel(_, _, _)
\* the loop "for node in parsed_doc.nodes" (lines 321-340)
ApplyTopLevel(nodes, st, translations) ==
    IF nodes = <<>> THEN [nodes |-> <<>>, st |-> st]
    ELSE LET own == ApplySegments(Head(nodes).text_segments, st, translations)
             sub == apply_recursive([Head(nodes) EXCEPT !.text_segments = own.segs],
                                    own.st, translations)
             rest == ApplyTopLevel(Tail(nodes), sub.st, translations)
         IN  [nodes |-> <<sub.node>> \o rest.nodes, st |-> rest.st]

_apply_translations(doc, translations) ==
    LET r == ApplyTopLevel(doc.nodes, [counter |-> 0, writes |-> <<>>], translations)
    IN  [doc |-> [doc EXCEPT !.nodes = r.nodes], writes |-> r.st.writes]

\* ============================================================ html_parser
\* A text is a sequence of one-character strings.  Markup is modelled as the
\* element tree BeautifulSoup(html, 'lxml') builds from it: a DOM node is a text
\* run or a tag with attributes in source order and children.  An attribute
\* value is a str, or a list (bs4 returns the class attribute as a list).
DomText(t) == [kind |-> "text", name |-> "", attrs |-> <<>>, children |-> <<>>, text |-> t]

DomTag(n, a, c) == [kind |-> "tag", name |-> n, attrs |-> a, children |-> c, text |-> <<>>]

StrAttr(k, v) == [key |-> k, is_list |-> FALSE, str |-> v, list |-> <<>>]

ListAttr(k, l) == [key |-> k, is_list |-> TRUE, str |-> "", list |-> l]

IsSpace(c) == c \in {" ", "\n", "\t"}

RECURSIVE LStrip(_)
LStrip(t) == IF t # <<>> /\ IsSpace(Head(t)) THEN LStrip(Tail(t)) ELSE t

RECURSIVE RStrip(_)
RStrip(t) == IF t # <<>> /\ IsSpace(t[Len(t)]) THEN RStrip(SubSeq(t, 1, Len(t) - 1)) ELSE t

\* str.strip()
Strip(t) == RStrip(LStrip(t))

RECURSIVE JoinWords(_)
\* ' '.join(list)
JoinWords(l) ==
    IF l = <<>> THEN "" ELSE IF Len(l) = 1 THEN l[1] ELSE l[1] \o " " \o JoinWords(Tail(l))

HasAttr(el, k) == \E i \in DOMAIN el.attrs : el.attrs[i].key = k

\* the attribute lxml keeps for a key: its first occurrence
Attr(el, k) == el.attrs[CHOOSE i \in DOMAIN el.attrs :
                            el.attrs[i].key = k /\ \A j \in 1..(i - 1) : el.attrs[j].key # k]

\* element.get('class', []) as a list of class names
ClassList(el) ==
    IF ~HasAttr(el, "class") THEN <<>>
    ELSE IF Attr(el, "class").is_list THEN Attr(el, "class").list ELSE <<Attr(el, "class").str>>

LATIN_CLASSES == {"foreign"}
GLOSS_CLASSES == {"gloss"}
REFERENCE_CLASSES == {"bibl"}
BLOCK_TAGS == {"p", "h1", "h2", "h3", "h4", "div", "blockquote", "li"}
INLINE_TAGS == {"span", "strong", "em", "b", "i", "u", "a", "sup", "sub"}
SKIPPED_TAGS == {"script", "style", "meta", "link", "head"}
NODE_TYPE_TAGS ==
    {"h1", "h2", "h3", "h4", "p", "ol", "ul", "li", "table", "tr", "td", "th", "blockquote",
     "div", "span", "a", "strong", "em"}

\* _get_node_type: NodeType values are the tag names; FALSE stands for None
_get_node_type(tag_name) == IF tag_name \in NODE_TYPE_TAGS THEN tag_name ELSE Null

\* variant: only the first class of the list is looked at
_determine_text_type_FirstClass(element) ==
    LET classes == IF ClassList(element) = <<>> THEN {} ELSE {ClassList(element)[1]}
    IN  IF classes \cap LATIN_CLASSES # {} THEN LATIN
        ELSE IF classes \cap GLOSS_CLASSES # {} THEN GLOSS
        ELSE IF classes \cap REFERENCE_CLASSES # {} THEN REFERENCE
        ELSE ENGLISH

_determine_text_type(element) ==
    LET classes == Range(ClassList(element))
    IN  IF classes \cap LATIN_CLASSES # {} THEN LATIN
        ELSE IF classes \cap GLOSS_CLASSES # {} THEN GLOSS
        ELSE IF classes \cap REFERENCE_CLASSES # {} THEN REFERENCE
        ELSE ENGLISH

\* The inline style strings of the inputs, with the declarations the tests of
\* _extract_formatting find in each.
StyleTable ==
    [s \in {"", "font-weight: bold", "padding-left: 20px"} |->
        CASE s = "font-weight: bold" -> [FormattingStyle EXCEPT !.bold = TRUE]
          [] s = "padding-left: 20px" -> [FormattingStyle EXCEPT !.padding_left = "20px"]
          [] OTHER -> FormattingStyle]

_extract_formatting(element) ==
    LET style == IF HasAttr(element, "style") THEN Attr(element, "style").str ELSE ""
        by_style == StyleTable[style]
    IN  [by_style EXCEPT !.bold = @ \/ element.name \in {"strong", "b"},
                         !.italic = @ \/ element.name \in {"em", "i"},
                         !.underline = @ \/ element.name = "u"]

RECURSIVE get_text(_)
RECURSIVE ForestText(_)
\* Tag.get_text(): the concatenation of every text run below the element
get_text(element) ==
    IF element.kind = "text" THEN element.text ELSE ForestText(element.children)
ForestText(items) ==
    IF items = <<>> THEN <<>> ELSE get_text(Head(items)) \o ForestText(Tail(items))

RECURSIVE Descendants(_)
RECURSIVE ForestDescendants(_)
\* the tags below an element, in document order
Descendants(element) == ForestDescendants(element.children)
ForestDescendants(items) ==
    IF items = <<>> THEN <<>>
    ELSE (IF Head(items).kind = "tag" THEN <<Head(items)>> \o Descendants(Head(items)) ELSE <<>>)
             \o ForestDescendants(Tail(items))

\* element.find(name): [found, tag]
Find(element, tag_name) ==
    LET hits == SelectSeq(Descendants(element), LAMBDA d : d.name = tag_name)
    IN  IF hits = <<>> THEN [found |-> FALSE, tag |-> element] ELSE [found |-> TRUE, tag |-> hits[1]]

Digits == {"0", "1", "2", "3", "4", "5", "6", "7", "8", "9"}
LowerCase ==
    {"a", "b", "c", "d", "e", "f", "g", "h", "i", "j", "k", "l", "m", "n", "o", "p", "q", "r",
     "s", "t", "u", "v", "w", "x", "y", "z"}

RECURSIVE LeadingDigits(_)
LeadingDigits(t) == IF t # <<>> /\ Head(t) \in Digits THEN 1 + LeadingDigits(Tail(t)) ELSE 0

\* re.match(r'^(\d+[a-z]?)\.?$', text): the length of group 1, 0 for no match
SectionLabelLength(t) ==
    LET d == LeadingDigits(t)
        l == IF d < Len(t) /\ t[d + 1] \in LowerCase THEN d + 1 ELSE d
        e == IF l < Len(t) /\ t[l + 1] = "." THEN l + 1 ELSE l
        \* '$' also matches before one trailing newline
        f == IF e < Len(t) /\ t[e + 1] = "\n" THEN e + 1 ELSE e
    IN  IF d > 0 /\ f = Len(t) THEN l ELSE 0

_extract_section_number(element) ==
    LET strong == Find(element, "strong")
        text == Strip(get_text(strong.tag))
    IN  IF strong.found /\ SectionLabelLength(text) > 0
        THEN [found |-> TRUE, value |-> SubSeq(text, 1, SectionLabelLength(text))]
        ELSE [found |-> FALSE, value |-> <<>>]

\* the ids that start with 'fn' or 'rfn', among those an input can carry
FootnoteIds == {"fn1", "fn2", "rfn1", "rfn2"}

\* _check_footnote: the first anchor only
_check_footnote(element) ==
    LET link == Find(element, "a")
    IN  IF link.found /\ HasAttr(link.tag, "id") /\ Attr(link.tag, "id").str # ""
           /\ Attr(link.tag, "id").str \in FootnoteIds
        THEN [is_footnote |-> TRUE, footnote_id |-> Attr(link.tag, "id").str]
        ELSE [is_footnote |-> FALSE, footnote_id |-> Null]

\* the attributes dict of _parse_element: lists joined, later duplicates of a
\* key dropped
RECURSIVE JoinedAttributes(_, _)
JoinedAttributes(attrs, seen) ==
    IF attrs = <<>> THEN <<>>
    ELSE IF Head(attrs).key \in seen THEN JoinedAttributes(Tail(attrs), seen)
    ELSE <<[key |-> Head(attrs).key,
            value |-> IF Head(attrs).is_list THEN JoinWords(Head(attrs).list)
                      ELSE Head(attrs).str]>>
             \o JoinedAttributes(Tail(attrs), seen \cup {Head(attrs).key})

AttributeValue(attributes, k) ==
    IF \E i \in DOMAIN attributes : attributes[i].key = k
    THEN attributes[CHOOSE i \in DOMAIN attributes : attributes[i].key = k].value
    ELSE Null

\* The parser state threaded through one parse_html call: self.stats, and
\* whether a pydantic ValidationError has been raised (nothing runs after it).
ParserState(st, err) == [stats |-> st, error |-> err]

NewNode(nt, nid, attrs, style, secno, isfn, fnid) ==
    ParsedNode(nt, nid, <<>>, attrs, style, <<>>, secno, isfn, fnid)

\* node.text_segments.append(segment) and the counters that go with it; the
\* identity of the new segment is its rank among the segments of the parse
AppendSegment(acc, text, tt, fmt, cls) ==
    LET n == acc.st.stats.text_segments + 1
        key == CASE tt = LATIN -> "latin_segments"
                 [] tt = ENGLISH -> "english_segments"
                 [] tt = GLOSS -> "gloss_segments"
                 [] OTHER -> "text_segments"
        counted == [acc.st.stats EXCEPT !.text_segments = n]
    IN  [node |-> [acc.node EXCEPT !.text_segments =
                       Append(@, TextSegment(n, text, tt, fmt, cls))],
         st |-> [acc.st EXCEPT !.stats =
                    IF key = "text_segments" THEN counted
                    ELSE [counted EXCEPT ![key] = @ + 1]]]

_parse_inline_element(element, acc) ==
    LET text_type == _determine_text_type(element)
        formatting == _extract_formatting(element)
        text == Strip(ForestText(element.children))
        html_class == IF ClassList(element) # <<>> THEN ClassList(element)[1] ELSE Null
    IN  IF text # <<>> THEN AppendSegment(acc, text, text_type, formatting, html_class) ELSE acc

\* dict(row.attrs): the values as bs4 holds them; a list value fails the
\* Dict[str, str] validation of ParsedNode
RawAttributes(attrs) ==
    [i \in DOMAIN attrs |-> [key |-> attrs[i].key, value |-> attrs[i].str]]

HasListAttribute(el) == \E i \in DOMAIN el.attrs : el.attrs[i].is_list

ChildTags(element, names) ==
    SelectSeq(element.children, LAMBDA c : c.kind = "tag" /\ c.name \in names)

\* node.children.append(child_node) when _parse_element returned a node
AppendParsed(acc, r) ==
    [node |-> IF r.ok THEN [acc.node EXCEPT !.children = Append(@, r.node)] ELSE acc.node,
     st |-> r.st]

\* parent.children.append(node) for a row or cell node filled by the parser
AppendFilled(acc, filled) ==
    [node |-> [acc.node EXCEPT !.children = Append(@, filled.node)], st |-> filled.st]

RECURSIVE _parse_element(_, _)
RECURSIVE ParseContentItems(_, _, _)
RECURSIVE ParseCells(_, _)
RECURSIVE ParseRows(_, _)
RECURSIVE ParseItems(_, _)

\* one iteration of the loop of _parse_content
ParseContentChild(element, child, acc) ==
    IF child.kind = "text"
    THEN IF Strip(child.text) # <<>>
         THEN AppendSegment(acc, Strip(child.text), ENGLISH, _extract_formatting(element), Null)
         ELSE acc
    ELSE IF child.name \in INLINE_TAGS THEN _parse_inline_element(child, acc)
    ELSE IF child.name \in BLOCK_TAGS THEN AppendParsed(acc, _parse_element(child, acc.st))
    ELSE acc

ParseContentItems(element, items, acc) ==
    IF items = <<>> \/ acc.st.error THEN acc
    ELSE ParseContentItems(element, Tail(items), ParseContentChild(element, Head(items), acc))

_parse_content(element, acc) == ParseContentItems(element, element.children, acc)

\* ParsedNode(node_type=cell_type, attributes=dict(cell.attrs), inline_style=cell.get('style'))
CellNode(cell) ==
    NewNode(cell.name, Null, RawAttributes(cell.attrs),
            IF HasAttr(cell, "style") THEN Attr(cell, "style").str ELSE Null, <<>>, FALSE, Null)

\* ParsedNode(node_type=NodeType.TABLE_ROW, attributes=dict(row.attrs))
RowNode(row) == NewNode("tr", Null, RawAttributes(row.attrs), Null, <<>>, FALSE, Null)

\* the cells of one row: acc.node is the row node
ParseCells(cells, acc) ==
    IF cells = <<>> \/ acc.st.error THEN acc
    ELSE IF HasListAttribute(Head(cells)) THEN [acc EXCEPT !.st.error = TRUE]
    ELSE ParseCells(Tail(cells),
                    AppendFilled(acc, _parse_content(Head(cells),
                                                     [node |-> CellNode(Head(cells)),
                                                      st |-> acc.st])))

\* the rows of a table: acc.node is the table node
ParseRows(rows, acc) ==
    IF rows = <<>> \/ acc.st.error THEN acc
    ELSE IF HasListAttribute(Head(rows)) THEN [acc EXCEPT !.st.error = TRUE]
    ELSE ParseRows(Tail(rows),
                   AppendFilled(acc, ParseCells(ChildTags(Head(rows), {"td", "th"}),
                                                [node |-> RowNode(Head(rows)),
                                                 st |-> acc.st])))

_parse_table(table, acc) == ParseRows(ChildTags(table, {"tr"}), acc)

ParseItems(items, acc) ==
    IF items = <<>> \/ acc.st.error THEN acc
    ELSE ParseItems(Tail(items), AppendParsed(acc, _parse_element(Head(items), acc.st)))

_parse_list(list_element, acc) == ParseItems(ChildTags(list_element, {"li"}), acc)

\* the node _parse_element creates before it processes the content
ElementNode(element) ==
    LET attributes == JoinedAttributes(element.attrs, {})
        footnote == _check_footnote(element)
    IN  NewNode(_get_node_type(element.name), AttributeValue(attributes, "id"), attributes,
                AttributeValue(attributes, "style"), _extract_section_number(element).value,
                footnote.is_footnote, footnote.footnote_id)

\* self.stats[key] += 1, unless the content raised
Counted(filled, key) ==
    IF filled.st.error THEN filled ELSE [filled EXCEPT !.st.stats[key] = @ + 1]

\* the content of an element by its tag, and the tables / lists counters
ParseByTag(element, start) ==
    IF element.name = "table" THEN Counted(_parse_table(element, start), "tables")
    ELSE IF element.name \in {"ol", "ul"} THEN Counted(_parse_list(element, start), "lists")
    ELSE _parse_content(element, start)

\* self.stats["total_nodes"] += 1; return node
CountedNode(filled) ==
    [ok |-> ~filled.st.error, node |-> filled.node, st |-> Counted(filled, "total_nodes").st]

\* [ok, node, st]: ok is FALSE where the code returns None or raises
_parse_element(element, st) ==
    IF element.name \in SKIPPED_TAGS \/ _get_node_type(element.name) = Null
    THEN [ok |-> FALSE, node |-> ElementNode(element), st |-> st]
    ELSE CountedNode(ParseByTag(element, [node |-> ElementNode(element), st |-> st]))

\* A markup document as BeautifulSoup(html_content, 'lxml') holds it: the
\* title and stylesheet link of its head (Null when the tag is missing),
\* whether it has a body tag, the children of the body, and the children of
\* the soup itself when there is no body (none for an empty input, the html
\* tag for a document that is only a head).
Soup(t, css, hb, b, top) ==
    [title |-> t, css_file |-> css, has_body |-> hb, body |-> b, top |-> top]

\* a markup document with a body
Markup(t, css, b) == Soup(t, css, TRUE, b, <<>>)

NoMarkup == Markup(Null, Null, <<>>)

_extract_title(soup) == IF soup.title # Null THEN soup.title ELSE "Untitled"

_extract_css_link(soup) == soup.css_file

\* nodes.append(parsed) and the two indexes: an index maps a key to the
\* position in nodes of the node object it holds
AppendTopLevel(acc, r) ==
    IF ~r.ok THEN [acc EXCEPT !.st = r.st]
    ELSE [nodes |-> Append(acc.nodes, r.node),
          sections |-> IF Truthy(r.node.node_id)
                       THEN (r.node.node_id :> Len(acc.nodes) + 1) @@ acc.sections
                       ELSE acc.sections,
          footnotes |-> IF r.node.is_footnote /\ Truthy(r.node.footnote_id)
                        THEN (r.node.footnote_id :> Len(acc.nodes) + 1) @@ acc.footnotes
                        ELSE acc.footnotes,
          st |-> r.st]

RECURSIVE ParseTopLevel(_, _)
\* the loop of parse_html over body.children: acc is [nodes, sections, footnotes, st]
ParseTopLevel(items, acc) ==
    IF items = <<>> \/ acc.st.error THEN acc
    ELSE ParseTopLevel(Tail(items),
                       IF Head(items).kind # "tag" THEN acc
                       ELSE AppendTopLevel(acc, _parse_element(Head(items), acc.st)))

\* [raised, doc, stats]: stats is self.stats when the call ends
parse_html(soup, filename) ==
    LET body == IF soup.has_body THEN soup.body ELSE soup.top
        parsed == ParseTopLevel(body,
                                [nodes |-> <<>>, sections |-> <<>>, footnotes |-> <<>>,
                                 st |-> ParserState(DefaultDocStats, FALSE)])
    IN  [raised |-> parsed.st.error,
         stats |-> parsed.st.stats,
         doc |-> [title |-> _extract_title(soup), encoding |-> "utf-8",
                  nodes |-> parsed.nodes, sections |-> parsed.sections,
                  footnotes |-> parsed.footnotes, stats |-> parsed.st.stats,
                  original_filename |-> filename, css_file |-> _extract_css_link(soup)]]

\* ========================================================= html_generator
\* The serializer is modelled by the element tree of the markup it writes:
\* html.escape and the entity decoding of the markup reader cancel, and the
\* line breaks and indentation become whitespace text runs.
indent_size == 2

Spaces(n) == [i \in 1..n |-> " "]

\* '\n' followed by the indentation of a level
LineBreak(level) == DomText(<<"\n">> \o Spaces(level * indent_size))

RECURSIVE MergeText(_)
\* adjacent text runs of the written markup are one text node; an empty run is none
MergeText(items) ==
    IF items = <<>> THEN <<>>
    ELSE IF Head(items).kind = "text" /\ Head(items).text = <<>> THEN MergeText(Tail(items))
    ELSE IF Len(items) >= 2 /\ Head(items).kind = "text" /\ items[2].kind = "text"
    THEN MergeText(<<DomText(items[1].text \o items[2].text)>> \o Tail(Tail(items)))
    ELSE <<Head(items)>> \o MergeText(Tail(items))

\* The class lists whose joined form the serializer can be given: bs4 splits
\* a class attribute at whitespace.
KnownClassLists == {<<"foreign">>, <<"gloss">>, <<"bibl">>, <<"note">>, <<"note", "foreign">>}

SplitWords(str) == CHOOSE l \in KnownClassLists : JoinWords(l) = str

\* the attribute the markup reader builds from key="value"
WrittenAttr(k, v) == IF k = "class" THEN ListAttr(k, SplitWords(v)) ELSE StrAttr(k, v)

_build_attributes(node) ==
    (IF Truthy(node.node_id) THEN <<WrittenAttr("id", node.node_id)>> ELSE <<>>)
        \o [i \in DOMAIN node.attributes |->
               WrittenAttr(node.attributes[i].key, node.attributes[i].value)]
        \o (IF Truthy(node.inline_style)
               /\ ~\E i \in DOMAIN node.attributes : node.attributes[i].key = "style"
            THEN <<WrittenAttr("style", node.inline_style)>> ELSE <<>>)

_build_inline_style(formatting) ==
    (IF Truthy(formatting.font_size) THEN <<"font-size: " \o formatting.font_size>> ELSE <<>>)
        \o (IF Truthy(formatting.font_family)
            THEN <<"font-family: " \o formatting.font_family>> ELSE <<>>)
        \o (IF Truthy(formatting.color) THEN <<"color: " \o formatting.color>> ELSE <<>>)
        \o (IF Truthy(formatting.padding_left)
            THEN <<"padding-left: " \o formatting.padding_left>> ELSE <<>>)
        \o (IF Truthy(formatting.text_align)
            THEN <<"text-align: " \o formatting.text_align>> ELSE <<>>)

RECURSIVE JoinStyle(_)
\* "; ".join(style_parts)
JoinStyle(parts) ==
    IF parts = <<>> THEN "" ELSE IF Len(parts) = 1 THEN parts[1]
    ELSE parts[1] \o "; " \o JoinStyle(Tail(parts))

\* the markup of one segment: a text run, wrapped in strong / em / u by its
\* formatting and in a span when it has a class or a style
_segment_to_html(segment) ==
    LET class == IF Truthy(segment.html_class) THEN <<segment.html_class>>
                 ELSE IF segment.text_type = LATIN THEN <<"foreign">>
                 ELSE IF segment.text_type = GLOSS THEN <<"gloss">>
                 ELSE <<>>
        style_parts == _build_inline_style(segment.formatting)
        wrapper_attrs ==
            (IF class # <<>> THEN <<ListAttr("class", class)>> ELSE <<>>)
                \o (IF style_parts # <<>> THEN <<StrAttr("style", JoinStyle(style_parts))>>
                    ELSE <<>>)
        text == DomText(segment.text)
        bold == IF segment.formatting.bold THEN DomTag("strong", <<>>, MergeText(<<text>>))
                ELSE text
        italic == IF segment.formatting.italic THEN DomTag("em", <<>>, MergeText(<<bold>>))
                  ELSE bold
        underline == IF segment.formatting.underline THEN DomTag("u", <<>>, MergeText(<<italic>>))
                     ELSE italic
    IN  IF wrapper_attrs # <<>> THEN DomTag("span", wrapper_attrs, MergeText(<<underline>>))
        ELSE underline

EndsWith(t, chars) == t # <<>> /\ t[Len(t)] \in chars

StartsWith(t, chars) == t # <<>> /\ t[1] \in chars

\* variant: a space is written after every segment but the last
RECURSIVE BuildTextFrom_AlwaysSpace(_, _)
BuildTextFrom_AlwaysSpace(segments, i) ==
    IF i > Len(segments) THEN <<>>
    ELSE <<_segment_to_html(segments[i])>>
            \o (IF i < Len(segments) THEN <<DomText(<<" ">>)>> ELSE <<>>)
            \o BuildTextFrom_AlwaysSpace(segments, i + 1)

RECURSIVE BuildTextFrom(_, _)
\* the loop of _build_text_content from segment i on
BuildTextFrom(segments, i) ==
    IF i > Len(segments) THEN <<>>
    ELSE <<_segment_to_html(segments[i])>>
            \o (IF i < Len(segments)
                   /\ ~EndsWith(segments[i].text, {" ", "\n", "\t"})
                   /\ ~StartsWith(segments[i + 1].text,
                                  {" ", "\n", "\t", ".", ",", ":", ";", "!", "?", ")", "]", "}"})
                THEN <<DomText(<<" ">>)>> ELSE <<>>)
            \o BuildTextFrom(segments, i + 1)

_build_text_content(segments) == BuildTextFrom(segments, 1)

RECURSIVE _node_to_html(_, _)
RECURSIVE ChildrenToHtml(_, _)
\* the element written for a node at an indent level; the indentation in
\* front of it is written by the caller's line break
_node_to_html(node, level) ==
    DomTag(node.node_type, _build_attributes(node),
           MergeText(_build_text_content(node.text_segments)
                         \o ChildrenToHtml(node.children, level + 1)
                         \o (IF node.children # <<>> THEN <<LineBreak(level)>> ELSE <<>>)))
ChildrenToHtml(children, level) ==
    IF children = <<>> THEN <<>>
    ELSE <<LineBreak(level), _node_to_html(Head(children), level)>>
             \o ChildrenToHtml(Tail(children), level)

\* variant: indent_level is advanced by 2 instead of set to 2
_build_complete_html_Accumulates(doc, css) ==
    Markup(doc.title, css,
           <<LineBreak(1),
             DomTag("div", <<StrAttr("id", "page-wrapper")>>,
                    MergeText(ChildrenToHtml(doc.nodes, indent_level + 2) \o <<LineBreak(1)>>)),
             LineBreak(0)>>)

\* the markup document written for a ParsedDocument by a generator with the
\* given css_file
_build_complete_html(doc, css) ==
    Markup(doc.title, css,
           <<LineBreak(1),
             DomTag("div", <<StrAttr("id", "page-wrapper")>>,
                    MergeText(ChildrenToHtml(doc.nodes, 2) \o <<LineBreak(1)>>)),
             LineBreak(0)>>)

\* ========================================================= word_generator
\* The Word document is modelled by the blocks added to it, in order.
WordBlock(k, lvl, txt, rs, rws) ==
    [kind |-> k, level |-> lvl, text |-> txt, runs |-> rs, rows |-> rws]

WordRun(txt, b, i) == [text |-> txt, bold |-> b, italic |-> i]

RECURSIVE JoinWithSpace(_)
\* ' '.join(texts)
JoinWithSpace(texts) ==
    IF texts = <<>> THEN <<>>
    ELSE IF Len(texts) = 1 THEN texts[1]
    ELSE texts[1] \o <<" ">> \o JoinWithSpace(Tail(texts))

RECURSIVE _get_node_text(_)
RECURSIVE ChildTexts(_)
_get_node_text(node) ==
    Strip(JoinWithSpace([i \in DOMAIN node.text_segments |-> node.text_segments[i].text]
                        \o ChildTexts(node.children)))
\* the texts of the children that have one
ChildTexts(children) ==
    IF children = <<>> THEN <<>>
    ELSE SelectSeq(<<_get_node_text(Head(children))>>, LAMBDA t : t # <<>>)
             \o ChildTexts(Tail(children))

_add_heading(node, level) ==
    IF _get_node_text(node) # <<>>
    THEN <<WordBlock("heading", level, _get_node_text(node), <<>>, <<>>)>> ELSE <<>>

_add_paragraph(node) ==
    IF node.text_segments = <<>> /\ node.children = <<>> THEN <<>>
    ELSE <<WordBlock("paragraph", 0, <<>>,
                     (IF node.section_number # <<>>
                      THEN <<WordRun(node.section_number \o <<".", " ">>, TRUE, FALSE)>>
                      ELSE <<>>)
                         \o [i \in DOMAIN node.text_segments |->
                                WordRun(node.text_segments[i].text,
                                        node.text_segments[i].formatting.bold,
                                        node.text_segments[i].formatting.italic
                                            \/ node.text_segments[i].text_type = LATIN)],
                     <<>>)>>

\* one paragraph for each list item that has text
_add_list(node, ordered) ==
    LET items == SelectSeq(node.children,
                           LAMBDA c : c.node_type = "li" /\ _get_node_text(c) # <<>>)
    IN  [i \in DOMAIN items |->
            WordBlock(IF ordered THEN "List Number" ELSE "List Bullet", 0,
                      _get_node_text(items[i]), <<>>, <<>>)]

CellsOf(row_node) == SelectSeq(row_node.children, LAMBDA c : c.node_type \in {"td", "th"})

_add_table(node) ==
    LET rows == SelectSeq(node.children, LAMBDA c : c.node_type = "tr")
        cols == IF rows = <<>> THEN 0 ELSE Len(CellsOf(rows[1]))
    IN  IF cols = 0 THEN <<>>
        ELSE <<WordBlock("table", 0, <<>>, <<>>,
                         [i \in DOMAIN rows |->
                             [j \in 1..cols |->
                                 IF j <= Len(CellsOf(rows[i]))
                                 THEN WordRun(_get_node_text(CellsOf(rows[i])[j]),
                                              CellsOf(rows[i])[j].node_type = "th", FALSE)
                                 ELSE WordRun(<<>>, FALSE, FALSE)]])>>

_add_blockquote(node) ==
    IF _get_node_text(node) # <<>>
    THEN <<WordBlock("blockquote", 0, _get_node_text(node), <<>>, <<>>)>> ELSE <<>>

\* the branch of _process_node for the node itself
NodeBlocks(node) ==
    CASE node.node_type = "h2" -> _add_heading(node, 1)
      [] node.node_type = "h3" -> _add_heading(node, 2)
      [] node.node_type = "h4" -> _add_heading(node, 3)
      [] node.node_type = "p" -> _add_paragraph(node)
      [] node.node_type = "ol" -> _add_list(node, TRUE)
      [] node.node_type = "ul" -> _add_list(node, FALSE)
      [] node.node_type = "table" -> _add_table(node)
      [] node.node_type = "blockquote" -> _add_blockquote(node)
      [] OTHER -> <<>>

RECURSIVE _process_node(_)
RECURSIVE ProcessNodes(_)
_process_node(node) == NodeBlocks(node) \o ProcessNodes(node.children)
ProcessNodes(nodes) ==
    IF nodes = <<>> THEN <<>> ELSE _process_node(Head(nodes)) \o ProcessNodes(Tail(nodes))

\* the blocks generate_from_parsed adds: the title, the two lines about the
\* source, an empty paragraph, and the blocks of the nodes
WordDocument(doc) ==
    <<WordBlock("heading", 0, doc.title, <<>>, <<>>),
      WordBlock("paragraph", 0, <<>>,
                <<WordRun(doc.original_filename, FALSE, TRUE),
                  WordRun("Traduzido automaticamente com IA", FALSE, TRUE)>>, <<>>),
      WordBlock("paragraph", 0, <<>>, <<>>, <<>>)>>
        \o ProcessNodes(doc.nodes)

\* ---------------------------------------------------- input markup
\* The tags of the generated inputs: the content models each one occurs in
\* and the content model of what it holds.  The body holds blocks ("flow");
\* div, li and td hold text, inline tags and blocks ("mixed"); p holds text
\* and inline tags ("phrasing"); an inline tag holds a text run ("text").
Blocks == {"flow", "mixed"}
Inlines == {"mixed", "phrasing"}

Templates ==
    {[name |-> "p", attrs |-> <<>>, in |-> Blocks, holds |-> "phrasing"],
     [name |-> "div", attrs |-> <<StrAttr("id", "s1")>>, in |-> Blocks, holds |-> "mixed"],
     [name |-> "ul", attrs |-> <<>>, in |-> Blocks, holds |-> "list"],
     [name |-> "li", attrs |-> <<>>, in |-> {"list"}, holds |-> "mixed"],
     [name |-> "table", attrs |-> <<>>, in |-> Blocks, holds |-> "table"],
     [name |-> "tr", attrs |-> <<>>, in |-> {"table"}, holds |-> "row"],
     [name |-> "td", attrs |-> <<>>, in |-> {"row"}, holds |-> "mixed"],
     [name |-> "th", attrs |-> <<ListAttr("class", <<"note">>)>>, in |-> {"row"},
      holds |-> "mixed"],
     [name |-> "span", attrs |-> <<ListAttr("class", <<"foreign">>)>>,
      in |-> Inlines, holds |-> "text"],
     [name |-> "strong", attrs |-> <<>>, in |-> Inlines, holds |-> "text"]}

InputTexts == {<<"w">>}

NoAdjacentText(items) ==
    \A i \in 1..(Len(items) - 1) : ~(items[i].kind = "text" /\ items[i + 1].kind = "text")

RECURSIVE DomForests(_, _)
\* the element sequences of exactly n tags and text runs allowed in a context
DomForests(ctx, n) ==
    IF n = 0 THEN {<<>>}
    ELSE LET items(k) ==
                 (IF k = 1 /\ ctx \in {"mixed", "phrasing", "text"}
                  THEN {DomText(t) : t \in InputTexts} ELSE {})
                 \cup UNION {{DomTag(t.name, t.attrs, c) : c \in DomForests(t.holds, k - 1)} :
                                t \in {u \in Templates : ctx \in u.in}}
             all == UNION {{<<x>> \o f : x \in items(k), f \in DomForests(ctx, n - k)} :
                              k \in 1..n}
         IN  {f \in all : NoAdjacentText(f)}

InputsOf(maxdom) ==
    {Markup("Title", "site.css", b) : b \in UNION {DomForests("flow", n) : n \in 0..maxdom}}

\* the inputs in which lxml builds no body: the empty input and a document
\* that is only a head
NoBodyInputs ==
    {Soup(Null, Null, FALSE, <<>>, <<>>),
     Soup("Title", Null, FALSE, <<>>,
          <<DomTag("html", <<>>,
                   <<DomTag("head", <<>>, <<DomTag("title", <<>>, <<DomText(<<"T">>)>>)>>)>>)>>)}

Inputs == InputsOf(MaxDom) \cup NoBodyInputs

\* ------------------------------------------------------- the collaborator
\* The mappings translate_section may return for a SectionData: any set of
\* the ids sent, with or without one id that was never extracted.
Mappings(sec) ==
    {[k \in ks |-> <<"tr", k>>] : ks \in SUBSET (0..Len(sec.segments_to_translate))}

\* tokens_used: 0 stands for None (both are skipped by "if result.tokens_used")
TokenCounts == {0, MaxTokens}

NoSection ==
    [title |-> "", filename |-> "", segments_to_translate |-> <<>>, total_segments |-> 0,
     latin_count |-> 0, english_count |-> 0, gloss_count |-> 0]

TranslationResult(ok, m, msg, tok) ==
    [success |-> ok, translated_segments |-> m, error_message |-> msg, tokens_used |-> tok]

NoResult == TranslationResult(FALSE, <<>>, "", 0)

\* ------------------------------------------------------------ operations
TypeOK ==
    /\ pc \in {"idle", "retry", "done"}
    /\ max_retries \in 0..MaxRetries
    /\ attempt \in 0..MaxRetries
    /\ completed \in 0..MaxCalls

\* no parser or generator call has been made
InitPipeline ==
    /\ html = NoMarkup
    /\ parser_stats = DefaultDocStats
    /\ output = NoMarkup
    /\ indent_level = 0
    /\ ppc = "input"
    /\ round = 0
    /\ prev_output = NoMarkup
    /\ docx = <<>>
    /\ requests = <<>>
    /\ app = DefaultApp

InitCommon ==
    /\ InitPipeline
    /\ stats = EmptyStats
    /\ max_retries \in 0..MaxRetries
    /\ pc = "idle"
    /\ section = NoSection
    /\ attempt = 0
    /\ result = NoResult
    /\ calls = <<>>
    /\ writes = <<>>
    /\ pre_doc = parsed_doc
    /\ pre_stats = stats
    /\ completed = 0

\* one translate_document call on any document
Init ==
    /\ parsed_doc \in Documents
    /\ InitCommon

\* a session of calls on one translator instance
InitSession ==
    /\ parsed_doc \in SessionDocuments
    /\ InitCommon

\* translate_document, up to the call of _translate_with_retry
Extract ==
    /\ pc = "idle"
    /\ completed < MaxCalls
    /\ section' = _extract_section_data(parsed_doc)
    /\ attempt' = 0
    /\ pre_doc' = parsed_doc
    /\ pre_stats' = stats
    /\ pc' = "retry"
    /\ UNCHANGED <<pvars, parsed_doc, stats, max_retries, result, calls, writes, completed>>

\* variant: the success branch does not leave the loop
AttemptSuccess_NoReturn ==
    /\ pc = "retry"
    /\ attempt < max_retries
    /\ \E m \in Mappings(section), tok \in TokenCounts :
          /\ result' = TranslationResult(TRUE, m, "", tok)
          /\ stats' = [stats EXCEPT !.sections_translated = @ + 1,
                                    !.segments_translated = @ + Cardinality(DOMAIN m),
                                    !.total_tokens = IF tok # 0 THEN @ + tok ELSE @]
    /\ calls' = Append(calls, [payload |-> Payload(section), success |-> TRUE])
    /\ attempt' = attempt + 1
    /\ UNCHANGED <<pvars, parsed_doc, max_retries, pc, section, writes, pre_doc, pre_stats,
                   completed>>

\* variant: segments_translated is assigned instead of accumulated
AttemptSuccess_Overwrites ==
    /\ pc = "retry"
    /\ attempt < max_retries
    /\ \E m \in Mappings(section), tok \in TokenCounts :
          /\ result' = TranslationResult(TRUE, m, "", tok)
          /\ stats' = [stats EXCEPT !.sections_translated = @ + 1,
                                    !.segments_translated = Cardinality(DOMAIN m),
                                    !.total_tokens = IF tok # 0 THEN @ + tok ELSE @]
          /\ LET r == _apply_translations(parsed_doc, m)
             IN  /\ parsed_doc' = r.doc
                 /\ writes' = r.writes
    /\ calls' = Append(calls, [payload |-> Payload(section), success |-> TRUE])
    /\ pc' = "done"
    /\ UNCHANGED <<pvars, max_retries, section, attempt, pre_doc, pre_stats, completed>>

\* The iteration of the retry loop in which translate_section returns
\* success: the totals are updated, _translate_with_retry returns the result
\* and translate_document reinjects it (branch "if result.success").
AttemptSuccess ==
    /\ pc = "retry"
    /\ attempt < max_retries
    /\ \E m \in Mappings(section), tok \in TokenCounts :
          /\ result' = TranslationResult(TRUE, m, "", tok)
          /\ stats' = [stats EXCEPT !.sections_translated = @ + 1,
                                    !.segments_translated = @ + Cardinality(DOMAIN m),
                                    !.total_tokens = IF tok # 0 THEN @ + tok ELSE @]
          /\ LET r == _apply_translations(parsed_doc, m)
             IN  /\ parsed_doc' = r.doc
                 /\ writes' = r.writes
    /\ calls' = Append(calls, [payload |-> Payload(section), success |-> TRUE])
    /\ pc' = "done"
    /\ UNCHANGED <<pvars, max_retries, section, attempt, pre_doc, pre_stats, completed>>

\* variant: a failure result counts an error at every attempt
AttemptFailure_CountsError ==
    /\ pc = "retry"
    /\ attempt < max_retries
    /\ calls' = Append(calls, [payload |-> Payload(section), success |-> FALSE])
    /\ attempt' = attempt + 1
    /\ stats' = [stats EXCEPT !.errors = @ + 1]
    /\ UNCHANGED <<pvars, parsed_doc, max_retries, pc, section, result, writes, pre_doc,
                   pre_stats, completed>>

\* one iteration in which translate_section returns a failure result
AttemptFailure ==
    /\ pc = "retry"
    /\ attempt < max_retries
    /\ calls' = Append(calls, [payload |-> Payload(section), success |-> FALSE])
    /\ attempt' = attempt + 1
    /\ UNCHANGED <<pvars, parsed_doc, stats, max_retries, pc, section, result, writes, pre_doc,
                   pre_stats, completed>>

\* variant: the except branch counts an error for every attempt that raised
AttemptException_CountsError ==
    /\ pc = "retry"
    /\ attempt < max_retries
    /\ calls' = Append(calls, [payload |-> Payload(section), success |-> FALSE])
    /\ attempt' = attempt + 1
    /\ stats' = [stats EXCEPT !.errors = @ + 1]
    /\ UNCHANGED <<pvars, parsed_doc, max_retries, pc, section, result, writes, pre_doc,
                   pre_stats, completed>>

\* one iteration in which translate_section raises
AttemptException ==
    /\ pc = "retry"
    /\ attempt < max_retries
    /\ calls' = Append(calls, [payload |-> Payload(section), success |-> FALSE])
    /\ attempt' = attempt + 1
    /\ UNCHANGED <<pvars, parsed_doc, stats, max_retries, pc, section, result, writes, pre_doc,
                   pre_stats, completed>>

\* the loop is exhausted: _translate_with_retry records the error and
\* translate_document takes its else branch
AllAttemptsFailed ==
    /\ pc = "retry"
    /\ attempt >= max_retries
    /\ stats' = [stats EXCEPT !.errors = @ + 1]
    /\ result' = TranslationResult(FALSE, <<>>, "Todas as tentativas falharam", 0)
    /\ pc' = "done"
    /\ UNCHANGED <<pvars, parsed_doc, max_retries, section, attempt, calls, writes, pre_doc,
                   pre_stats, completed>>

\* translate_document returns parsed_doc; its locals go out of scope
Return ==
    /\ pc = "done"
    /\ pc' = "idle"
    /\ completed' = completed + 1
    /\ section' = NoSection
    /\ attempt' = 0
    /\ result' = NoResult
    /\ calls' = <<>>
    /\ writes' = <<>>
    /\ pre_doc' = parsed_doc
    /\ pre_stats' = stats
    /\ UNCHANGED <<pvars, parsed_doc, stats, max_retries>>

\* TranslationStrategy.reset_stats
reset_stats ==
    /\ pc = "idle"
    /\ stats' = EmptyStats
    /\ UNCHANGED <<pvars, parsed_doc, max_retries, pc, section, attempt, result, calls, writes,
                   pre_doc, pre_stats, completed>>

\* one translate_document call, up to its return
Next ==
    \/ Extract
    \/ AttemptSuccess
    \/ AttemptFailure
    \/ AttemptException
    \/ AllAttemptsFailed

\* the operations of a caller that keeps one translator instance
NextSession ==
    \/ Next
    \/ Return
    \/ reset_stats

Spec == Init /\ [][Next]_vars

SpecSession == InitSession /\ [][NextSession]_vars

\* ------------------------------------------------- parse / generate pipeline
EmptyDocument ==
    [title |-> "Untitled", encoding |-> "utf-8", nodes |-> <<>>, sections |-> <<>>,
     footnotes |-> <<>>, stats |-> DefaultDocStats, original_filename |-> Null,
     css_file |-> Null]

\* a markup document is submitted to a fresh parser and generator
InitParse ==
    /\ parsed_doc = EmptyDocument
    /\ html \in Inputs
    /\ parser_stats = DefaultDocStats
    /\ output = NoMarkup
    /\ indent_level = 0
    /\ ppc = "input"
    /\ round = 0
    /\ prev_output = NoMarkup
    /\ docx = <<>>
    /\ requests = <<>>
    /\ app = DefaultApp
    /\ stats = EmptyStats
    /\ max_retries = MaxRetries
    /\ pc = "idle"
    /\ section = NoSection
    /\ attempt = 0
    /\ result = NoResult
    /\ calls = <<>>
    /\ writes = <<>>
    /\ pre_doc = parsed_doc
    /\ pre_stats = stats
    /\ completed = 0

\* parser.parse_html(html_content, filename) returns a document
ParseHtml ==
    /\ ppc = "input"
    /\ round < MaxRounds
    /\ LET r == parse_html(html, "a.htm")
       IN  /\ ~r.raised
           /\ parsed_doc' = r.doc
           /\ parser_stats' = r.stats
    /\ round' = round + 1
    /\ ppc' = "parsed"
    /\ UNCHANGED <<tvars, html, output, indent_level, prev_output, docx, requests, app>>

\* parser.parse_html raises: no document is returned
ParseHtmlRaises ==
    /\ ppc = "input"
    /\ round < MaxRounds
    /\ LET r == parse_html(html, "a.htm")
       IN  /\ r.raised
           /\ parser_stats' = r.stats
    /\ round' = round + 1
    /\ ppc' = "raised"
    /\ UNCHANGED <<parsed_doc, tvars, html, output, indent_level, prev_output, docx,
                   requests, app>>

\* generator.generate_html(parsed_doc, output_path) writes the markup; the
\* same generator may be asked once more for the same document
generate_html ==
    /\ ppc \in {"parsed", "generated"}
    /\ output' = _build_complete_html(parsed_doc, "./site.css")
    /\ prev_output' = output
    /\ indent_level' = 2
    /\ ppc' = IF ppc = "parsed" THEN "generated" ELSE "regenerated"
    /\ UNCHANGED <<parsed_doc, tvars, html, parser_stats, round, docx, requests, app>>

\* SimpleWordGenerator().generate_from_parsed(parsed_doc, output_word) ends
\* the pipeline with the Word document
generate_from_parsed ==
    /\ ppc = "parsed"
    /\ docx' = docx \o WordDocument(parsed_doc)
    /\ ppc' = "word"
    /\ UNCHANGED <<parsed_doc, tvars, html, parser_stats, output, indent_level, round,
                   prev_output, requests, app>>

\* the written file is read and becomes the next input
ReadGenerated ==
    /\ ppc = "generated"
    /\ round < MaxRounds
    /\ html' = output
    /\ ppc' = "input"
    /\ UNCHANGED <<parsed_doc, tvars, parser_stats, output, indent_level, round, prev_output,
                   docx, requests, app>>

NextParse ==
    \/ ParseHtml
    \/ ParseHtmlRaises
    \/ generate_html
    \/ generate_from_parsed
    \/ ReadGenerated

SpecParse == InitParse /\ [][NextParse]_vars

\* ================================================================ claims
Units == section.segments_to_translate

Translations == result.translated_segments

Eligible(seg) == seg.text_type \in {ENGLISH, GLOSS}

Succeeded == pc = "done" /\ result.success

\* the unit ids under which the segment with identity r was extracted
IdsOfRef(r) == {Units[i].id : i \in {j \in DOMAIN Units : Units[j].segment_ref = r}}

\* C1: after reinjection of any mapping, a segment holds the mapped text if it
\* is an extracted ENGLISH/GLOSS unit whose id is a key of the mapping, and its
\* original text in every other case (LATIN, REFERENCE, id absent).
C1_PartialMappingFrame ==
    Succeeded =>
        \A s \in Range(AllSegments(parsed_doc)) :
            LET old == SegmentByRef(pre_doc, s.ref)
                hit == IdsOfRef(s.ref) \cap DOMAIN Translations
            IN  IF Eligible(old) /\ hit # {}
                THEN \A k \in hit : s.text = Translations[k]
                ELSE s.text = old.text

\* a partial mapping that also holds a never-extracted id was reinjected: one
\* eligible segment was set, another kept its text
C1_Witness ==
    /\ Succeeded
    /\ \E k \in DOMAIN Translations : \A i \in DOMAIN Units : Units[i].id # k
    /\ \E i, j \in DOMAIN Units :
          /\ Units[i].id \in DOMAIN Translations
          /\ Units[j].id \notin DOMAIN Translations
          /\ SegmentByRef(parsed_doc, Units[i].segment_ref).text = Translations[Units[i].id]
          /\ SegmentByRef(parsed_doc, Units[j].segment_ref).text
                = SegmentByRef(pre_doc, Units[j].segment_ref).text

\* C2: every assignment reinjection makes for a key k goes to the segment
\* object that extraction stored as segment_ref of the unit with id k, and
\* every unit whose id is in the mapping receives its assignment.
C2_WritesThroughCapturedHandle ==
    Succeeded =>
        /\ \A w \in Range(writes) :
              \E i \in DOMAIN Units : Units[i].id = w[1] /\ Units[i].segment_ref = w[2]
        /\ \A i \in DOMAIN Units :
              Units[i].id \in DOMAIN Translations
                  => <<Units[i].id, Units[i].segment_ref>> \in Range(writes)

\* two units of different nodes, one of them below the top level, were both set
C2_Witness ==
    /\ Succeeded
    /\ Len(writes) = 2
    /\ Len(parsed_doc.nodes) = 1
    /\ parsed_doc.nodes[1].text_segments # <<>>
    /\ Len(parsed_doc.nodes[1].text_segments) < Len(AllSegments(parsed_doc))

\* C3: segments_to_translate holds exactly one unit per ENGLISH or GLOSS
\* segment of the tree and none for a LATIN or REFERENCE segment, and no
\* payload sent carries the text of a LATIN or REFERENCE segment.
C3_TypeExclusion ==
    pc # "idle" =>
        /\ \A i \in DOMAIN Units : Eligible(SegmentByRef(pre_doc, Units[i].segment_ref))
        /\ \A s \in Range(AllSegments(pre_doc)) :
              Eligible(s) => Cardinality({i \in DOMAIN Units : Units[i].segment_ref = s.ref}) = 1
        /\ \A c \in Range(calls), s \in Range(AllSegments(pre_doc)) :
              s.text_type \in {LATIN, REFERENCE}
                  => \A i \in DOMAIN c.payload.segments : c.payload.segments[i].text # s.text

\* a payload was sent for a tree holding a LATIN and an ENGLISH segment
C3_Witness ==
    /\ calls # <<>>
    /\ Len(Units) = 1
    /\ \E s \in Range(AllSegments(pre_doc)) : s.text_type \in {LATIN, REFERENCE}

\* the tags of the body of a markup document, in document order
Elements(markup) == ForestDescendants(markup.body)

NodeKinds(markup) == [i \in DOMAIN Elements(markup) |-> Elements(markup)[i].name]

AttributeSets(markup) ==
    [i \in DOMAIN Elements(markup) |-> Range(Elements(markup)[i].attrs)]

\* the text of a markup document, indentation and spacing apart
TextContent(markup) == SelectSeq(ForestText(markup.body), LAMBDA c : ~IsSpace(c))

\* C4: a document written by the serializer, parsed and written again, has
\* the same pre-order sequence of node kinds, the same attribute set on every
\* node and the same text content.
C4_RoundTrip ==
    (ppc = "generated" /\ round >= 2) =>
        /\ NodeKinds(output) = NodeKinds(prev_output)
        /\ AttributeSets(output) = AttributeSets(prev_output)
        /\ TextContent(output) = TextContent(prev_output)

RECURSIVE NodeList(_)
\* every node reachable from a node sequence, in pre-order
NodeList(nodes) ==
    IF nodes = <<>> THEN <<>>
    ELSE <<Head(nodes)>> \o NodeList(Head(nodes).children) \o NodeList(Tail(nodes))

CountOf(seq, Test(_)) == Len(SelectSeq(seq, Test))

\* the stats of a document counted afresh over its tree
Recount(doc) ==
    [total_nodes |-> Len(NodeList(doc.nodes)),
     text_segments |-> Len(AllSegments(doc)),
     latin_segments |-> CountOf(AllSegments(doc), LAMBDA g : g.text_type = LATIN),
     english_segments |-> CountOf(AllSegments(doc), LAMBDA g : g.text_type = ENGLISH),
     gloss_segments |-> CountOf(AllSegments(doc), LAMBDA g : g.text_type = GLOSS),
     tables |-> CountOf(NodeList(doc.nodes), LAMBDA n : n.node_type = "table"),
     lists |-> CountOf(NodeList(doc.nodes), LAMBDA n : n.node_type \in {"ol", "ul"})]

\* C5: the stats of the document parse_html returns equal a fresh recount over
\* the returned tree, table rows and table cells included.
C5_StatsMatchRecount ==
    ppc \in {"parsed", "generated"} => parsed_doc.stats = Recount(parsed_doc)

\* C6: with an empty eligible sequence the collaborator is never invoked and
\* no counter changes.
C6_EmptyMakesNoCall ==
    (pc # "idle" /\ Units = <<>>) => (calls = <<>> /\ stats = pre_stats)

\* C7: within one call the collaborator is invoked at most max_retries times,
\* never after a success, always with the payload of the extraction, and no
\* segment text changes while attempts are made.
C7_RetryDiscipline ==
    pc # "idle" =>
        /\ Len(calls) <= max_retries
        /\ \A i \in DOMAIN calls : i < Len(calls) => ~calls[i].success
        /\ \A i \in DOMAIN calls : calls[i].payload = Payload(_extract_section_data(pre_doc))
        /\ pc = "retry" => parsed_doc = pre_doc

\* a success on the last permitted attempt, after a failure
C7_Witness ==
    /\ Succeeded
    /\ Len(calls) = max_retries
    /\ Len(calls) >= 2
    /\ ~calls[1].success
    /\ calls[1].payload.segments # <<>>

\* C8: when every attempt fails (failure result or exception, any
\* max_retries) the call ends with every text as before and errors one higher.
C8_AllFailedPreservesText ==
    (pc = "done" /\ ~result.success) =>
        /\ parsed_doc = pre_doc
        /\ stats.errors = pre_stats.errors + 1
        /\ Len(calls) = max_retries
        /\ \A i \in DOMAIN calls : ~calls[i].success

\* a call failed after two attempts, on a tree with an eligible segment
C8_Witness ==
    /\ pc = "done"
    /\ ~result.success
    /\ Len(calls) = 2
    /\ Units # <<>>

RECURSIVE BlankNode(_)
\* the node with every segment text replaced by one fixed value
BlankNode(node) ==
    [node EXCEPT !.text_segments = [i \in DOMAIN @ |-> [@[i] EXCEPT !.text = ""]],
                 !.children = [i \in DOMAIN @ |-> BlankNode(@[i])]]

Skeleton(doc) == [doc EXCEPT !.nodes = [i \in DOMAIN @ |-> BlankNode(@[i])]]

\* C9: translate_document changes nothing of the document but segment texts.
C9_OnlyTextChanges == Skeleton(parsed_doc) = Skeleton(pre_doc)

\* a text of a segment below the top level was replaced
C9_Witness ==
    /\ Succeeded
    /\ parsed_doc # pre_doc
    /\ [parsed_doc EXCEPT !.nodes = [i \in DOMAIN @ |-> [@[i] EXCEPT !.children = <<>>]]]
          = [pre_doc EXCEPT !.nodes = [i \in DOMAIN @ |-> [@[i] EXCEPT !.children = <<>>]]]

NoCounterDecreases(old, new) ==
    /\ new.sections_translated >= old.sections_translated
    /\ new.segments_translated >= old.segments_translated
    /\ new.total_tokens >= old.total_tokens
    /\ new.errors >= old.errors

\* C10: the totals never decrease except by reset_stats, which zeroes them; a
\* successful call adds 1, the size of the mapping and the token count, and
\* leaves errors alone; a call starts from the totals the earlier calls left.
C10_RunningTotals ==
    [][/\ (pc = "idle" /\ pc' = "idle") => stats' \in {stats, EmptyStats}
       /\ ~(pc = "idle" /\ pc' = "idle") => NoCounterDecreases(stats, stats')
       /\ (pc = "idle" /\ pc' = "retry") => stats' = stats
       /\ (pc' = "done" /\ result'.success) =>
             stats' = [pre_stats' EXCEPT
                          !.sections_translated = @ + 1,
                          !.segments_translated = @ + Cardinality(DOMAIN result'.translated_segments),
                          !.total_tokens = @ + result'.tokens_used]]_vars

\* a second successful call ended with the totals of both calls
C10_Witness ==
    /\ Succeeded
    /\ completed = 1
    /\ pre_stats.sections_translated = 1
    /\ pre_stats.total_tokens > 0
    /\ stats.sections_translated = 2
    /\ stats.total_tokens > pre_stats.total_tokens

\* ------------------------------------------------ C11: the word-join rule
\* The texts a segment may hold when it reaches the serializer: words,
\* punctuation, and texts with a space, newline or tab at either end.
JoinTexts ==
    {<<"w">>, <<"n">>, <<",">>, <<")">>, <<"w", " ">>, <<" ", "w">>, <<"w", "\n">>,
     <<"\t", "w">>, <<"(">>, <<>>}

JoinSegments(n) ==
    {[i \in 1..n |-> TextSegment(i, txt[i], tt[i], FormattingStyle, Null)] :
        txt \in [1..n -> JoinTexts], tt \in [1..n -> {ENGLISH, LATIN}]}

\* a document of one paragraph that holds the segments
JoinDocument(segs) ==
    [EmptyDocument EXCEPT
        !.title = "Title",
        !.nodes = <<ParsedNode("p", Null, segs, <<>>, Null, <<>>, <<>>, FALSE, Null)>>]

JoinDocuments == {JoinDocument(segs) : segs \in UNION {JoinSegments(n) : n \in 0..MaxJoinSegs}}

\* a tree built in memory is handed to a fresh generator
InitJoin ==
    /\ parsed_doc \in JoinDocuments
    /\ html = NoMarkup
    /\ parser_stats = DefaultDocStats
    /\ output = NoMarkup
    /\ indent_level = 0
    /\ ppc = "parsed"
    /\ round = 0
    /\ prev_output = NoMarkup
    /\ docx = <<>>
    /\ requests = <<>>
    /\ app = DefaultApp
    /\ stats = EmptyStats
    /\ max_retries = MaxRetries
    /\ pc = "idle"
    /\ section = NoSection
    /\ attempt = 0
    /\ result = NoResult
    /\ calls = <<>>
    /\ writes = <<>>
    /\ pre_doc = parsed_doc
    /\ pre_stats = stats
    /\ completed = 0

SpecJoin == InitJoin /\ [][generate_html]_vars

JoinWhitespace == {" ", "\n", "\t"}
JoinPunctuation == {".", ",", ":", ";", "!", "?", ")", "]", "}"}

\* what the rule puts between segment i and the next one
Separator(segs, i) ==
    IF i = Len(segs) THEN <<>>
    ELSE IF \/ (segs[i].text # <<>> /\ segs[i].text[Len(segs[i].text)] \in JoinWhitespace)
            \/ (segs[i + 1].text # <<>>
                   /\ segs[i + 1].text[1] \in JoinWhitespace \cup JoinPunctuation)
    THEN <<>>
    ELSE <<" ">>

JoinedText(segs) == Flatten([i \in DOMAIN segs |-> segs[i].text \o Separator(segs, i)])

\* the paragraphs of the written markup, in document order
WrittenParagraphs == SelectSeq(Elements(output), LAMBDA e : e.name = "p")

\* C11: the text written for a node is its segment texts in order with one
\* space between two consecutive segments, and nothing between them when the
\* first ends in a space, newline or tab or the second begins with one or
\* with one of . , : ; ! ? ) ] }; nothing follows the last segment.
C11_WordJoin ==
    ppc = "generated" =>
        /\ Len(WrittenParagraphs) = Len(parsed_doc.nodes)
        /\ \A i \in DOMAIN WrittenParagraphs :
              get_text(WrittenParagraphs[i]) = JoinedText(parsed_doc.nodes[i].text_segments)

\* "w","n" is written "w n" and "w","," is written "w,"
C11_Witness ==
    /\ ppc = "generated"
    /\ Len(parsed_doc.nodes) = 1
    /\ LET segs == parsed_doc.nodes[1].text_segments
       IN  /\ Len(segs) = 2
           /\ segs[1].text = <<"w">>
           /\ segs[2].text = <<",">>
           /\ segs[2].text_type = LATIN
           /\ get_text(WrittenParagraphs[1]) = <<"w", ",">>

\* ------------------------------------------- inputs of one block of inlines
\* One p or div that holds text runs and inline tags: bold runs that do or
\* do not read as a section label, anchors with and without a footnote id,
\* spans with one or two classes in either order.
LabelTexts == {<<"1", "5", "3", ".">>, <<"1", "5", "4", "a">>, <<"a", ".">>}

AnchorIds == {"x", "fn1", "rfn2"}

ClassNames == {"foreign", "gloss", "bibl", "note"}

ClassLists ==
    {<<c>> : c \in ClassNames}
        \cup ({<<c, e>> : c, e \in ClassNames} \ {<<c, c>> : c \in ClassNames})

InlineItems ==
    {DomText(<<"w">>)}
        \cup {DomTag(t, <<>>, <<DomText(l)>>) : t \in {"strong", "b"}, l \in LabelTexts}
        \cup {DomTag("a", <<>>, <<DomText(<<"w">>)>>)}
        \cup {DomTag("a", <<StrAttr("id", i)>>, <<DomText(<<"w">>)>>) : i \in AnchorIds}
        \cup {DomTag("span", <<ListAttr("class", c)>>, <<DomText(<<"w">>)>>) : c \in ClassLists}

InlineForests(n) == {f \in [1..n -> InlineItems] : NoAdjacentText(f)}

InlineInputsOf(maxinline) ==
    {Markup("Title", "site.css", <<DomTag(b, <<>>, f)>>) :
        b \in {"p", "div"}, f \in UNION {InlineForests(n) : n \in 0..maxinline}}

InlineInputs == InlineInputsOf(MaxInline)

\* a markup document of one block is submitted to a fresh parser
InitInline ==
    /\ parsed_doc = EmptyDocument
    /\ html \in InlineInputs
    /\ parser_stats = DefaultDocStats
    /\ output = NoMarkup
    /\ indent_level = 0
    /\ ppc = "input"
    /\ round = 0
    /\ prev_output = NoMarkup
    /\ docx = <<>>
    /\ requests = <<>>
    /\ app = DefaultApp
    /\ stats = EmptyStats
    /\ max_retries = MaxRetries
    /\ pc = "idle"
    /\ section = NoSection
    /\ attempt = 0
    /\ result = NoResult
    /\ calls = <<>>
    /\ writes = <<>>
    /\ pre_doc = parsed_doc
    /\ pre_stats = stats
    /\ completed = 0

SpecInline == InitInline /\ [][ParseHtml]_vars

\* ------------------------------------------ C12: section-label extraction
\* the bold runs of an element: its strong and b descendants, in document order
BoldRuns(element) == SelectSeq(Descendants(element), LAMBDA e : e.name \in {"strong", "b"})

\* t matches ^\d+[a-z]?\.?$
IsSectionLabel(t) ==
    \E d \in 1..Len(t) :
        /\ \A i \in 1..d : t[i] \in Digits
        /\ \/ Len(t) = d
           \/ Len(t) = d + 1 /\ (t[d + 1] \in LowerCase \/ t[d + 1] = ".")
           \/ Len(t) = d + 2 /\ t[d + 1] \in LowerCase /\ t[d + 2] = "."

WithoutTrailingPeriod(t) ==
    IF t # <<>> /\ t[Len(t)] = "." THEN SubSeq(t, 1, Len(t) - 1) ELSE t

\* the section number the rule gives an element; <<>> for none
SectionLabelOf(element) ==
    IF BoldRuns(element) = <<>> THEN <<>>
    ELSE LET text == Strip(get_text(BoldRuns(element)[1]))
         IN  IF IsSectionLabel(text) THEN WithoutTrailingPeriod(text) ELSE <<>>

\* C12: the section number of a parsed element is the trimmed text of its
\* first strong or b descendant without the trailing period when that text
\* matches ^\d+[a-z]?\.?$, and is unset otherwise.
C12_SectionLabel ==
    (ppc = "parsed" /\ Len(html.body) = 1 /\ Len(parsed_doc.nodes) = 1) =>
        parsed_doc.nodes[1].section_number = SectionLabelOf(html.body[1])

\* ---------------------------------------------- C13: failure of parse_html
\* C13: parse_html fails exactly when the input has no navigable root (an
\* empty input, an input without a body), and returns a document for every
\* other input, whatever its tags.
C13_FailsOnlyWithoutRoot ==
    ppc \in {"parsed", "raised"} => (ppc = "raised" <=> ~html.has_body)

C14_WordWitness ==
    /\ ppc = "word"
    /\ \E i \in DOMAIN docx : docx[i].kind = "table"

\* ------------------------------------------- C15: extraction order and ids
\* the eligible segments of a document in pre-order: the segments of a node
\* before those of its children, nodes left to right
EligibleInOrder(doc) == SelectSeq(AllSegments(doc), Eligible)

\* C15: the units of an extraction are the eligible segments of the tree in
\* pre-order, and the unit at position i carries the id i - 1: no gap, no
\* duplicate, no id spent on a LATIN or REFERENCE segment.  The ids depend on
\* the tree alone, so a second extraction of the same tree gives the same ids.
C15_PreOrderIds ==
    pc # "idle" =>
        /\ Len(Units) = Len(EligibleInOrder(pre_doc))
        /\ \A i \in DOMAIN Units :
              /\ Units[i].id = i - 1
              /\ Units[i].segment_ref = EligibleInOrder(pre_doc)[i].ref

\* an extraction in which an eligible segment of a child node follows a LATIN
\* segment and an eligible segment of its parent
C15_Witness ==
    /\ pc # "idle"
    /\ Len(Units) >= 2
    /\ \E i \in DOMAIN pre_doc.nodes :
          LET node == pre_doc.nodes[i]
          IN  /\ Len(node.text_segments) >= 2
              /\ node.text_segments[1].text_type = LATIN
              /\ Eligible(node.text_segments[2])
              /\ node.children # <<>>
              /\ node.children[1].text_segments # <<>>
              /\ Eligible(node.children[1].text_segments[1])
              /\ IdsOfRef(node.children[1].text_segments[1].ref)
                     = {1 + CHOOSE k \in 0..MaxSize : IdsOfRef(node.text_segments[2].ref) = {k}}

\* --------------------------------------------- C16: attribute extraction
\* the value the rule stores for an attribute of an element
JoinedValue(attr) == IF attr.is_list THEN JoinWords(attr.list) ELSE attr.str

\* the (key, joined value) pairs of the tags of a markup document
JoinedPairs(markup) ==
    UNION {{[key |-> e.attrs[i].key, value |-> JoinedValue(e.attrs[i])] : i \in DOMAIN e.attrs} :
              e \in Range(Elements(markup))}

\* C16: parse_html returns a document for an input whose tr, td or th tags
\* carry a class, and every attribute of every node of the tree, rows and
\* cells included, is a pair of the markup with its list value joined by
\* single spaces.
C16_AttributesJoined ==
    (ppc \in {"parsed", "raised"} /\ html.has_body) =>
        /\ ppc = "parsed"
        /\ \A n \in Range(NodeList(parsed_doc.nodes)) :
              \A i \in DOMAIN n.attributes : n.attributes[i] \in JoinedPairs(html)

\* ------------------------------------------------ C17: the two indexes
\* the nodes of a document at any depth
AllNodes(doc) == NodeList(doc.nodes)

\* an index entry refers to node n
RefersTo(doc, index, key, n) == key \in DOMAIN index /\ doc.nodes[index[key]] = n

\* the key is carried by one node of the tree only
OnlyNodeWith(doc, Key(_), n) ==
    \A i, j \in DOMAIN AllNodes(doc) :
        (Key(AllNodes(doc)[i]) = Key(n) /\ Key(AllNodes(doc)[j]) = Key(n)) => i = j

\* C17: in the document parse_html returns, every node at any depth with a
\* node id of its own is the entry of sections under that id, every node at
\* any depth flagged as a footnote is the entry of footnotes under its
\* footnote id, and every entry of either index is a node of the tree.
C17_IndexesCoverTree ==
    ppc = "parsed" =>
        /\ \A n \in Range(AllNodes(parsed_doc)) :
              /\ (Truthy(n.node_id) /\ OnlyNodeWith(parsed_doc, LAMBDA m : m.node_id, n))
                     => RefersTo(parsed_doc, parsed_doc.sections, n.node_id, n)
              /\ (n.is_footnote /\ Truthy(n.footnote_id)
                     /\ OnlyNodeWith(parsed_doc, LAMBDA m : m.footnote_id, n))
                     => RefersTo(parsed_doc, parsed_doc.footnotes, n.footnote_id, n)
        /\ \A k \in DOMAIN parsed_doc.sections :
              parsed_doc.nodes[parsed_doc.sections[k]] \in Range(AllNodes(parsed_doc))
        /\ \A k \in DOMAIN parsed_doc.footnotes :
              parsed_doc.nodes[parsed_doc.footnotes[k]] \in Range(AllNodes(parsed_doc))

\* ------------------------------------------- C18: nested lists and tables
ListOrTable == {"ol", "ul", "table"}

\* the lists and tables of a markup document, in document order
ListsAndTablesOf(markup) ==
    SelectSeq(NodeKinds(markup), LAMBDA k : k \in ListOrTable)

\* the list and table nodes of a document, in pre-order
ListAndTableNodes(doc) ==
    SelectSeq([i \in DOMAIN AllNodes(doc) |-> AllNodes(doc)[i].node_type],
              LAMBDA k : k \in ListOrTable)

\* C18: every list and table of the input body, at the top level or inside a
\* div, list item or table cell, has its node in the tree: the lists and
\* tables of the tree, in pre-order, are those of the input in document order.
C18_NestedListsKept ==
    (ppc = "parsed" /\ html.has_body) =>
        ListAndTableNodes(parsed_doc) = ListsAndTablesOf(html)

\* ------------------------------------------ C19: TextType classification
\* the type the priority rule gives a set of classes
TypeOfClasses(classes) ==
    CASE "foreign" \in classes -> LATIN
      [] "foreign" \notin classes /\ "gloss" \in classes -> GLOSS
      [] {"foreign", "gloss"} \cap classes = {} /\ "bibl" \in classes -> REFERENCE
      [] OTHER -> ENGLISH

\* the type the rule gives the segment made from a child of a block
TypeOfChild(child) ==
    IF child.kind = "text" THEN ENGLISH ELSE TypeOfClasses(Range(ClassList(child)))

\* C19: the segment of a direct text run is ENGLISH and the segment of an
\* inline element has the type its set of classes gives under the priority
\* foreign, gloss, bibl, whatever the order of the classes.
C19_TypeByClassPriority ==
    (ppc = "parsed" /\ Len(html.body) = 1 /\ Len(parsed_doc.nodes) = 1) =>
        LET children == html.body[1].children
            segments == parsed_doc.nodes[1].text_segments
        IN  /\ Len(segments) = Len(children)
            /\ \A i \in DOMAIN children : segments[i].text_type = TypeOfChild(children[i])

\* a text run followed by a span of class "gloss foreign" has been parsed
C19_Witness ==
    /\ ppc = "parsed"
    /\ Len(html.body) = 1
    /\ LET children == html.body[1].children
       IN  /\ Len(children) = 2
           /\ children[1].kind = "text"
           /\ ClassList(children[2]) = <<"gloss", "foreign">>
           /\ parsed_doc.nodes[1].text_segments[1].text_type = ENGLISH
           /\ parsed_doc.nodes[1].text_segments[2].text_type = LATIN

\* ------------------------------------------------ C20: footnote detection
\* the anchors of an element whose id begins with fn or rfn, in document order
FootnoteAnchors(element) ==
    SelectSeq(Descendants(element),
              LAMBDA e : e.name = "a" /\ HasAttr(e, "id") /\ Attr(e, "id").str \in FootnoteIds)

\* C20: a parsed node is flagged as a footnote, with the id of the anchor,
\* exactly when its element holds an anchor whose id begins with fn or rfn,
\* at whatever position among the anchors of the element.
C20_FootnoteAnyAnchor ==
    (ppc = "parsed" /\ Len(html.body) = 1 /\ Len(parsed_doc.nodes) = 1) =>
        LET anchors == FootnoteAnchors(html.body[1])
            node == parsed_doc.nodes[1]
        IN  /\ node.is_footnote <=> anchors # <<>>
            /\ node.is_footnote =>
                  \E i \in DOMAIN anchors : node.footnote_id = Attr(anchors[i], "id").str

\* --------------------------------------- inputs of one block with attributes
\* One p or div with a text run, carrying up to MaxAttrs of these attributes
\* in any order.
AttributePool ==
    {StrAttr("id", "s1"), StrAttr("style", "padding-left: 20px"),
     ListAttr("class", <<"note">>), StrAttr("lang", "la")}

AttributeLists(n) ==
    {a \in [1..n -> AttributePool] : \A i, j \in 1..n : a[i] = a[j] => i = j}

AttrInputsOf(maxattrs) ==
    {Markup("Title", "site.css", <<DomTag(b, a, <<DomText(<<"w">>)>>)>>) :
        b \in {"p", "div"}, a \in UNION {AttributeLists(n) : n \in 0..maxattrs}}

AttrInputs == AttrInputsOf(MaxAttrs)

\* a markup document of one block is parsed and written by a fresh parser
\* and generator
InitAttrs ==
    /\ parsed_doc = EmptyDocument
    /\ html \in AttrInputs
    /\ parser_stats = DefaultDocStats
    /\ output = NoMarkup
    /\ indent_level = 0
    /\ ppc = "input"
    /\ round = 0
    /\ prev_output = NoMarkup
    /\ docx = <<>>
    /\ requests = <<>>
    /\ app = DefaultApp
    /\ stats = EmptyStats
    /\ max_retries = MaxRetries
    /\ pc = "idle"
    /\ section = NoSection
    /\ attempt = 0
    /\ result = NoResult
    /\ calls = <<>>
    /\ writes = <<>>
    /\ pre_doc = parsed_doc
    /\ pre_stats = stats
    /\ completed = 0

NextAttrs ==
    \/ ParseHtml
    \/ generate_html

SpecAttrs == InitAttrs /\ [][NextAttrs]_vars

\* ------------------------------------------ C21: attribute emission order
\* the tag written for the i-th top-level node: the tags of the output are
\* the page wrapper and then the nodes in pre-order
WrittenTop == Elements(output)[2]

KeysOf(attrs) == [i \in DOMAIN attrs |-> attrs[i].key]

\* the order the rule gives the attribute names of a node
EmissionOrder(node) ==
    (IF Truthy(node.node_id) THEN <<"id">> ELSE <<>>)
        \o SelectSeq([i \in DOMAIN node.attributes |-> node.attributes[i].key],
                     LAMBDA k : k \notin {"id", "style"})
        \o (IF Truthy(node.inline_style) THEN <<"style">> ELSE <<>>)

\* C21: the tag written for a node carries id first when the node has an id,
\* then the other attributes of the node, then style last when the node has
\* an inline style; this for nodes that parse_html built.
C21_EmissionOrder ==
    (ppc = "generated" /\ Len(parsed_doc.nodes) = 1) =>
        KeysOf(WrittenTop.attrs) = EmissionOrder(parsed_doc.nodes[1])

\* --------------------------------------- C29: one attribute of each name
\* C29: the tag written for a node that parse_html built carries each
\* attribute name at most once, id and style included.
C29_AttributeNamesOnce ==
    (ppc = "generated" /\ Len(parsed_doc.nodes) = 1) =>
        \A i, j \in DOMAIN WrittenTop.attrs :
            WrittenTop.attrs[i].key = WrittenTop.attrs[j].key => i = j

\* ------------------------------- requests sharing the module-level parser
\* app.py creates one LatinGrammarParser for every request and Flask serves
\* requests in threads, so two parse_html calls can alternate.  A call is
\* modelled in steps: the reset of self.stats, one pass of the loop over
\* body.children for each child, and the construction of the document with
\* self.stats.copy().  self.stats is the variable parser_stats.
Threads == {1, 2}

SharedInputs == InputsOf(MaxShared)

Request(markup, at, pos, nodes, sections, footnotes, doc) ==
    [html |-> markup, at |-> at, pos |-> pos, nodes |-> nodes, sections |-> sections,
     footnotes |-> footnotes, doc |-> doc]

BodyOf(soup) == IF soup.has_body THEN soup.body ELSE soup.top

InitShared ==
    /\ parsed_doc = EmptyDocument
    /\ html = NoMarkup
    /\ parser_stats = DefaultDocStats
    /\ output = NoMarkup
    /\ indent_level = 0
    /\ ppc = "input"
    /\ round = 0
    /\ prev_output = NoMarkup
    /\ docx = <<>>
    /\ requests \in [Threads -> {Request(m, "new", 1, <<>>, <<>>, <<>>, EmptyDocument) :
                                    m \in SharedInputs}]
    /\ app = DefaultApp
    /\ stats = EmptyStats
    /\ max_retries = MaxRetries
    /\ pc = "idle"
    /\ section = NoSection
    /\ attempt = 0
    /\ result = NoResult
    /\ calls = <<>>
    /\ writes = <<>>
    /\ pre_doc = parsed_doc
    /\ pre_stats = stats
    /\ completed = 0

\* self.stats = {...} at the start of parse_html
ResetParserStats(t) ==
    /\ requests[t].at = "new"
    /\ parser_stats' = DefaultDocStats
    /\ requests' = [requests EXCEPT ![t].at = "loop"]
    /\ UNCHANGED <<parsed_doc, tvars, html, output, indent_level, ppc, round, prev_output,
                   docx, app>>

\* the state of the loop of a request after its next child, on the shared stats
AfterChild(r) ==
    ParseTopLevel(<<BodyOf(r.html)[r.pos]>>,
                  [nodes |-> r.nodes, sections |-> r.sections, footnotes |-> r.footnotes,
                   st |-> ParserState(parser_stats, FALSE)])

\* one pass of the loop of parse_html over body.children
ParseChild(t) ==
    /\ requests[t].at = "loop"
    /\ requests[t].pos <= Len(BodyOf(requests[t].html))
    /\ parser_stats' = AfterChild(requests[t]).st.stats
    /\ requests' = [requests EXCEPT
                       ![t].at = IF AfterChild(requests[t]).st.error THEN "raised" ELSE "loop",
                       ![t].pos = @ + 1,
                       ![t].nodes = AfterChild(requests[t]).nodes,
                       ![t].sections = AfterChild(requests[t]).sections,
                       ![t].footnotes = AfterChild(requests[t]).footnotes]
    /\ UNCHANGED <<parsed_doc, tvars, html, output, indent_level, ppc, round, prev_output,
                   docx, app>>

\* return ParsedDocument(..., stats=self.stats.copy(), ...)
ReturnDocument(t) ==
    /\ requests[t].at = "loop"
    /\ requests[t].pos > Len(BodyOf(requests[t].html))
    /\ requests' = [requests EXCEPT
                       ![t].at = "done",
                       ![t].doc = [title |-> _extract_title(requests[t].html),
                                   encoding |-> "utf-8",
                                   nodes |-> requests[t].nodes,
                                   sections |-> requests[t].sections,
                                   footnotes |-> requests[t].footnotes,
                                   stats |-> parser_stats,
                                   original_filename |-> "a.htm",
                                   css_file |-> _extract_css_link(requests[t].html)]]
    /\ UNCHANGED <<parsed_doc, tvars, html, parser_stats, output, indent_level, ppc, round,
                   prev_output, docx, app>>

NextShared ==
    \E t \in Threads :
        \/ ResetParserStats(t)
        \/ ParseChild(t)
        \/ ReturnDocument(t)

SpecShared == InitShared /\ [][NextShared]_vars

\* C22: a document returned by a request has the stats it has when its
\* markup is parsed alone, whatever the other request on the same parser
\* does meanwhile.
C22_StatsAsWhenAlone ==
    \A t \in Threads :
        requests[t].at = "done" =>
            requests[t].doc.stats = parse_html(requests[t].html, "a.htm").stats

\* ------------------------------------------------------ app.py: /translate
\* The JSON body of a request: absent or empty (kind "none"), with the key
\* 'html' (kind "html"), or the fields of a ParsedDocument (kind "dict",
\* keys the field names present, doc their values).
Body(kind, markup, keys, doc) == [kind |-> kind, html |-> markup, keys |-> keys, doc |-> doc]

NoBody == Body("none", NoMarkup, {}, EmptyDocument)

DocumentKeys ==
    {"title", "encoding", "nodes", "sections", "footnotes", "stats", "original_filename",
     "css_file"}

\* ParsedDocument: title and nodes have no default
RequiredKeys == {"title", "nodes"}

BodyInputs == InputsOf(MaxBody)

DumpedDocuments == {parse_html(m, Null).doc : m \in {i \in BodyInputs : ~parse_html(i, Null).raised}}

RequestBodies ==
    {NoBody}
        \cup {Body("html", m, {}, EmptyDocument) : m \in BodyInputs}
        \cup {Body("dict", NoMarkup, DocumentKeys \ missing, doc) :
                 missing \in {{}, {"title"}, {"nodes"}}, doc \in DumpedDocuments}

\* ParsedDocument(**data): pydantic raises when a required field is missing
ValidatesAsParsedDocument(data) == RequiredKeys \subseteq data.keys

Response(status, body) == [status |-> status, body |-> body]

NoResponse == Response(0, Null)

Translator(class, api_key, model_name) ==
    [class |-> class, api_key |-> api_key, model_name |-> model_name]

NoTranslator == Translator(Null, Null, Null)

\* str.lower() on the provider names of the inputs
Lower(provider) ==
    CASE provider = "Gemini" -> "gemini"
      [] provider = "CLAUDE" -> "claude"
      [] provider = "OpenAI" -> "openai"
      [] OTHER -> provider

Providers == {"gemini", "Gemini", "claude", "openai"}

\* TranslatorFactory.create: the translator, or ValueError
TranslatorFactory_create(provider, api_key, model_name) ==
    CASE Lower(provider) = "gemini" ->
             [raised |-> FALSE,
              translator |-> Translator("GeminiTranslator", api_key,
                                        IF Truthy(model_name) THEN model_name
                                        ELSE "gemini-3-pro-preview")]
      [] Lower(provider) = "claude" ->
             [raised |-> FALSE,
              translator |-> Translator("ClaudeTranslator", api_key,
                                        IF Truthy(model_name) THEN model_name
                                        ELSE "claude-3-5-sonnet-20241022")]
      [] OTHER -> [raised |-> TRUE, translator |-> NoTranslator]

\* the methods an instance of a class has, inherited ones included
MethodsOf(class) ==
    CASE class \in {"GeminiTranslator", "ClaudeTranslator"} ->
             {"translate_section", "get_provider_name", "_parse_response", "get_stats",
              "reset_stats", "_create_section_prompt"}
      [] class = "SectionTranslator" ->
             {"translate_document", "_extract_section_data", "_translate_with_retry",
              "_apply_translations"}
      [] OTHER -> {}

\* the handler from the creation of the translator on
TranslateWith(created) ==
    IF created.raised
    THEN [translator |-> NoTranslator, response |-> Response(500, "ValueError")]
    ELSE IF "translate_document" \notin MethodsOf(created.translator.class)
         THEN [translator |-> created.translator, response |-> Response(500, "AttributeError")]
         ELSE [translator |-> created.translator, response |-> Response(200, "model_dump")]

\* the handler of POST /translate for one request body
TranslateOutcome(data, parsed) ==
    IF data.kind = "none"
    THEN [parsed |-> FALSE, translator |-> NoTranslator,
          response |-> Response(400, "Request body")]
    ELSE IF ~Truthy(app.TRANSLATOR_API_KEY)
    THEN [parsed |-> FALSE, translator |-> NoTranslator,
          response |-> Response(500, "TRANSLATOR_API_KEY")]
    ELSE IF data.kind = "html" /\ parsed.raised
    THEN [parsed |-> TRUE, translator |-> NoTranslator,
          response |-> Response(500, "ValidationError")]
    ELSE IF data.kind = "dict" /\ ~ValidatesAsParsedDocument(data)
    THEN [parsed |-> FALSE, translator |-> NoTranslator,
          response |-> Response(400, "Formato")]
    ELSE [parsed |-> data.kind = "html"]
             @@ TranslateWith(TranslatorFactory_create(app.TRANSLATOR_PROVIDER,
                                                       app.TRANSLATOR_API_KEY,
                                                       app.TRANSLATOR_MODEL))

translate ==
    \E data \in RequestBodies :
        LET parsed == parse_html(data.html, Null)
            outcome == TranslateOutcome(data, parsed)
        IN  /\ app' = [app EXCEPT !.data = data, !.translator = outcome.translator,
                                  !.response = outcome.response]
            /\ parser_stats' = IF outcome.parsed THEN parsed.stats ELSE parser_stats
            /\ UNCHANGED <<parsed_doc, tvars, html, output, indent_level, ppc, round,
                           prev_output, docx, requests>>

InitTranslate ==
    /\ parsed_doc = EmptyDocument
    /\ html = NoMarkup
    /\ parser_stats = DefaultDocStats
    /\ output = NoMarkup
    /\ indent_level = 0
    /\ ppc = "input"
    /\ round = 0
    /\ prev_output = NoMarkup
    /\ docx = <<>>
    /\ requests = <<>>
    /\ app \in {App(provider, api_key, model, NoBody, NoTranslator, NoResponse) :
                   provider \in Providers, api_key \in {"", "key"},
                   model \in {Null, "gemini-1.5-flash"}}
    /\ stats = EmptyStats
    /\ max_retries = MaxRetries
    /\ pc = "idle"
    /\ section = NoSection
    /\ attempt = 0
    /\ result = NoResult
    /\ calls = <<>>
    /\ writes = <<>>
    /\ pre_doc = parsed_doc
    /\ pre_stats = stats
    /\ completed = 0

SpecTranslate == InitTranslate /\ [][translate]_vars

\* the request met the conditions under which the endpoint is to translate
Translatable ==
    /\ Truthy(app.TRANSLATOR_API_KEY)
    /\ Lower(app.TRANSLATOR_PROVIDER) \in {"gemini", "claude"}
    /\ \/ app.data.kind = "html" /\ ~parse_html(app.data.html, Null).raised
       \/ app.data.kind = "dict" /\ ValidatesAsParsedDocument(app.data)

\* C23: a /translate request with the key configured, a supported provider
\* and a body holding markup or a valid pre-parsed structure is answered 200,
\* and a malformed pre-parsed structure is answered 400 with no translator
\* created.
C23_TranslateAnswers ==
    app.response # NoResponse =>
        /\ Translatable => app.response.status = 200
        /\ (Truthy(app.TRANSLATOR_API_KEY) /\ app.data.kind = "dict"
               /\ ~ValidatesAsParsedDocument(app.data))
              => app.response.status = 400 /\ app.translator = NoTranslator

\* ------------------------------------------- documents written to Word
\* Markup of one or two top-level blocks, each holding one text that no
\* other block holds: a heading, paragraph, div or blockquote with the text,
\* or a list item, quotation or table cell with the text directly or in a
\* paragraph.
WordTexts == {<<SubSeq(<<"a", "b", "c", "d">>, i, i)[1]>> : i \in 1..MaxWord}

WordItems(t) ==
    {DomTag(n, <<>>, <<DomText(t)>>) : n \in {"h1", "h2", "h3", "h4", "p", "div", "blockquote"}}
        \cup {DomTag("ul", <<>>, <<DomTag("li", <<>>, <<c>>)>>) :
                 c \in {DomText(t), DomTag("p", <<>>, <<DomText(t)>>)}}
        \cup {DomTag("blockquote", <<>>, <<DomTag("p", <<>>, <<DomText(t)>>)>>),
              DomTag("table", <<>>, <<DomTag("tr", <<>>, <<DomTag("td", <<>>, <<DomText(t)>>)>>)>>),
              DomTag("table", <<>>,
                     <<DomTag("tr", <<>>,
                              <<DomTag("td", <<>>, <<DomTag("p", <<>>, <<DomText(t)>>)>>)>>)>>)}

\* one item, or two items with different texts
WordForests ==
    UNION {{<<x>> : x \in WordItems(t)} : t \in WordTexts}
        \cup UNION {{<<x, y>> : x \in WordItems(p[1]), y \in WordItems(p[2])} :
                       p \in {q \in WordTexts \X WordTexts : q[1] # q[2]}}

WordInputs == {Markup("Title", "site.css", b) : b \in WordForests}

InitWord ==
    /\ parsed_doc = EmptyDocument
    /\ html \in WordInputs
    /\ parser_stats = DefaultDocStats
    /\ output = NoMarkup
    /\ indent_level = 0
    /\ ppc = "input"
    /\ round = 0
    /\ prev_output = NoMarkup
    /\ docx = <<>>
    /\ requests = <<>>
    /\ app = DefaultApp
    /\ stats = EmptyStats
    /\ max_retries = MaxRetries
    /\ pc = "idle"
    /\ section = NoSection
    /\ attempt = 0
    /\ result = NoResult
    /\ calls = <<>>
    /\ writes = <<>>
    /\ pre_doc = parsed_doc
    /\ pre_stats = stats
    /\ completed = 0

NextWord ==
    \/ ParseHtml
    \/ generate_from_parsed

SpecWord == InitWord /\ [][NextWord]_vars

\* the blocks written for the nodes, after the title and the lines about the source
NodeBlockIndexes == 4..Len(docx)

HeadingNodes ==
    SelectSeq(AllNodes(parsed_doc),
              LAMBDA n : n.node_type \in {"h1", "h2", "h3", "h4"} /\ _get_node_text(n) # <<>>)

HeadingLevelOf(node_type) ==
    CASE node_type = "h1" -> 1 [] node_type = "h2" -> 2 [] node_type = "h3" -> 3
      [] OTHER -> 4

\* C24: every heading node of level 1 to 4 with a non-empty flattened text is
\* written as exactly one heading, and a deeper heading never gets a
\* shallower style than a less deep one.
C24_EveryHeadingWritten ==
    ppc = "word" =>
        /\ \A i \in DOMAIN HeadingNodes :
               Cardinality({j \in NodeBlockIndexes :
                               /\ docx[j].kind = "heading"
                               /\ docx[j].text = _get_node_text(HeadingNodes[i])}) = 1
        /\ \A i, k \in DOMAIN HeadingNodes :
               \A j, l \in NodeBlockIndexes :
                   (/\ docx[j].kind = "heading"
                    /\ docx[l].kind = "heading"
                    /\ docx[j].text = _get_node_text(HeadingNodes[i])
                    /\ docx[l].text = _get_node_text(HeadingNodes[k])
                    /\ HeadingLevelOf(HeadingNodes[i].node_type)
                           < HeadingLevelOf(HeadingNodes[k].node_type))
                       => docx[j].level <= docx[l].level

\* the places of the written blocks where a character stands: in the text of
\* a block, in a run of a paragraph, in a cell of a table
PlacesOf(c) ==
    {<<j, k>> \in NodeBlockIndexes \X (1..(2 * MaxWord)) :
        k \in DOMAIN docx[j].text /\ docx[j].text[k] = c}
        \cup {<<j, r, k>> \in NodeBlockIndexes \X (1..MaxWord) \X (1..MaxWord) :
                 /\ r \in DOMAIN docx[j].runs
                 /\ k \in DOMAIN docx[j].runs[r].text
                 /\ docx[j].runs[r].text[k] = c}
        \cup {<<j, r, col, k>> \in NodeBlockIndexes \X (1..MaxWord) \X (1..MaxWord) \X (1..MaxWord) :
                 /\ r \in DOMAIN docx[j].rows
                 /\ col \in DOMAIN docx[j].rows[r]
                 /\ k \in DOMAIN docx[j].rows[r][col].text
                 /\ docx[j].rows[r][col].text[k] = c}

SegmentTexts ==
    UNION {{AllNodes(parsed_doc)[i].text_segments[s].text :
               s \in DOMAIN AllNodes(parsed_doc)[i].text_segments} :
              i \in DOMAIN AllNodes(parsed_doc)}

\* C30: each text segment of the tree is written to the Word output exactly
\* once.
C30_EachSegmentOnce ==
    ppc = "word" => \A t \in SegmentTexts : Cardinality(PlacesOf(t[1])) = 1

\* ------------------------------------------------ documents counted once
\* the documents a translator has counted, translated or failed
DocumentsCounted(st) == st.sections_translated + st.errors

OneCountMore(before, after) ==
    \/ /\ after.sections_translated = before.sections_translated + 1
       /\ after.errors = before.errors
    \/ /\ after.errors = before.errors + 1
       /\ after.sections_translated = before.sections_translated

\* C25: every translate_document call adds exactly 1 to exactly one of
\* sections_translated and errors, at the step that ends its attempts, and
\* nothing else but reset_stats changes the two counters; so since the last
\* reset_stats their sum is the number of completed calls.
C25_OneCountPerCall ==
    [][/\ (pc = "retry" /\ pc' = "done") => OneCountMore(stats, stats')
       /\ (pc = "retry" /\ pc' = "done") => OneCountMore(pre_stats, stats')
       /\ (pc = "idle" /\ pc' = "idle") => stats' = stats \/ DocumentsCounted(stats') = 0
       /\ (~(pc = "retry" /\ pc' = "done") /\ ~(pc = "idle" /\ pc' = "idle")) =>
             /\ stats'.sections_translated = stats.sections_translated
             /\ stats'.errors = stats.errors]_vars

\* a second call has failed after all its attempts, the first one succeeded
C25_Witness ==
    /\ pc = "done"
    /\ completed = 1
    /\ attempt = MaxRetries
    /\ ~result.success
    /\ stats.sections_translated = 1
    /\ stats.errors = 1

\* the segments whose text the reinjection of the call set
SegmentsSet == {writes[i][2] : i \in DOMAIN writes}

\* C26: a successful call adds to segments_translated exactly the number of
\* segments whose text was set by its reinjection.
C26_CountsSegmentsSet ==
    Succeeded =>
        stats.segments_translated = pre_stats.segments_translated + Cardinality(SegmentsSet)

\* ------------------------------------- extraction against the parser's counts
\* Markup whose blocks hold text runs and spans of the classes of every text
\* type, directly, in a nested paragraph, in a list item or in a table cell.
ExtractRuns ==
    {DomText(<<"w">>)}
        \cup {DomTag("span", <<ListAttr("class", <<c>>)>>, <<DomText(<<"w">>)>>) :
                 c \in {"foreign", "gloss", "bibl"}}

ExtractContents == UNION {{f \in [1..n -> ExtractRuns] : NoAdjacentText(f)} : n \in 0..MaxExtractRuns}

ExtractBlocks ==
    UNION {{DomTag("p", <<>>, c),
            DomTag("div", <<>>, c \o <<DomTag("p", <<>>, c)>>),
            DomTag("ul", <<>>, <<DomTag("li", <<>>, c)>>),
            DomTag("table", <<>>, <<DomTag("tr", <<>>, <<DomTag("td", <<>>, c)>>)>>)} :
              c \in ExtractContents}

\* one such block, alone or followed by a paragraph
ExtractInputs ==
    {Markup("Title", "site.css", <<b>> \o rest) :
        b \in ExtractBlocks, rest \in {<<>>, <<DomTag("p", <<>>, <<DomText(<<"w">>)>>)>>}}

InitExtract ==
    /\ parsed_doc = EmptyDocument
    /\ html \in ExtractInputs
    /\ parser_stats = DefaultDocStats
    /\ output = NoMarkup
    /\ indent_level = 0
    /\ ppc = "input"
    /\ round = 0
    /\ prev_output = NoMarkup
    /\ docx = <<>>
    /\ requests = <<>>
    /\ app = DefaultApp
    /\ stats = EmptyStats
    /\ max_retries = MaxRetries
    /\ pc = "idle"
    /\ section = NoSection
    /\ attempt = 0
    /\ result = NoResult
    /\ calls = <<>>
    /\ writes = <<>>
    /\ pre_doc = parsed_doc
    /\ pre_stats = stats
    /\ completed = 0

\* translate_document's extraction of the document parse_html returned
ExtractParsed ==
    /\ ppc = "parsed"
    /\ Extract

NextExtract ==
    \/ ParseHtml
    \/ ExtractParsed

SpecExtract == InitExtract /\ [][NextExtract]_vars

\* C27: for a document as parse_html returns it, the counts of the extraction
\* are the counts the parser recorded: english, gloss and latin segments; the
\* units are the english and gloss segments and total_segments is the sum of
\* the three counts.
C27_ExtractionMatchesStats ==
    (ppc = "parsed" /\ pc = "retry") =>
        /\ section.english_count = parsed_doc.stats.english_segments
        /\ section.gloss_count = parsed_doc.stats.gloss_segments
        /\ section.latin_count = parsed_doc.stats.latin_segments
        /\ Len(section.segments_to_translate) = section.english_count + section.gloss_count
        /\ section.total_segments
               = section.english_count + section.gloss_count + section.latin_count

\* a document with a nested node and segments of the three counted types
C27_Witness ==
    /\ ppc = "parsed"
    /\ pc = "retry"
    /\ section.english_count > 0
    /\ section.gloss_count > 0
    /\ section.latin_count > 0
    /\ \E i \in DOMAIN parsed_doc.nodes : parsed_doc.nodes[i].children # <<>>

\* ------------------------------------------ text types over a round trip
\* the document parse_html gives for the markup written for parsed_doc
Reparsed == parse_html(_build_complete_html(parsed_doc, "./site.css"), "a.htm").doc

TextTypesOf(doc) == [i \in DOMAIN AllSegments(doc) |-> AllSegments(doc)[i].text_type]

\* the types of the segments that are not ENGLISH, in document order (runs of
\* plain text can be written next to each other and read back as one segment)
MarkedTypesOf(doc) == SelectSeq(TextTypesOf(doc), LAMBDA t : t # ENGLISH)

\* C28: the LATIN, GLOSS and REFERENCE segments of a parsed document come
\* back from serialization and parsing with the text types they had, in the
\* same order, and none of them comes back ENGLISH.
C28_TextTypeRoundTrip ==
    ppc = "parsed" => MarkedTypesOf(Reparsed) = MarkedTypesOf(parsed_doc)

=============================================================================
